---- MODULE Spec2Model ----
(***************************************************************************)
(* The dice roller of src/roll.py as a state machine.                      *)
(*                                                                         *)
(* A text is a sequence of one-character strings.  The regular             *)
(* expressions of the source are operators over such sequences, computed   *)
(* the way Python's backtracking matcher computes them.  The random        *)
(* module is a seeded stream: `tape` holds the outputs the generator gives *)
(* after random.seed(42), determined lazily as the program draws them;     *)
(* `pos` is how many of them the current run has consumed.                 *)
(*                                                                         *)
(* The driver is either main(), one call of roll on a text, or            *)
(* test()/expect(): it seeds the generator and calls roll on a text, then  *)
(* seeds it again and calls roll a second time on the same text or on a    *)
(* variant of it.                                                          *)
(***************************************************************************)
EXTENDS Integers, Sequences, FiniteSets, TLC

(***************************************************************************)
(* Bounds of the model.                                                    *)
(***************************************************************************)
\* the generator's outputs are 0 .. MaxRaw-1; randint(1, s) maps one to 1 .. s
MaxRaw == 2
\* a run that would consume more than MaxTape outputs is not followed further
MaxTape == 3
\* terms in a generated roll body
MaxTerms == 2
\* clauses in a generated multi-clause expression
MaxClauses == 2
\* largest repeat count of a generated clause
MaxTimes == 2
\* length of a free-form text
MaxLen == 3

\* i3auto-assign-workspace: outputs of a layout, characters of a workspace
\* name, assignments on the command line, windows
MaxMonitors == 3

MaxName == 1

MaxAssignments == 2

MaxContainers == 2

\* most workspaces of the other subcommands' runs
MaxWorkspaces == 2

(***************************************************************************)
(* Characters (re's ASCII classes \d, [0-9a-zA-Z], [-+], [<>=!]).          *)
(***************************************************************************)
Digits == {"0", "1", "2", "3", "4", "5", "6", "7", "8", "9"}

Letters ==
  {"a", "b", "c", "d", "e", "f", "g", "h", "i", "j", "k", "l", "m",
   "n", "o", "p", "q", "r", "s", "t", "u", "v", "w", "x", "y", "z",
   "A", "B", "C", "D", "E", "F", "G", "H", "I", "J", "K", "L", "M",
   "N", "O", "P", "Q", "R", "S", "T", "U", "V", "W", "X", "Y", "Z"}

Alnum == Digits \cup Letters

SignChars == {"-", "+"}

OpChars == {"<", ">", "=", "!"}

\* the Python value None (an unmatched group)
None == <<>>

DigitVal(c) ==
  CASE c = "0" -> 0 [] c = "1" -> 1 [] c = "2" -> 2 [] c = "3" -> 3
    [] c = "4" -> 4 [] c = "5" -> 5 [] c = "6" -> 6 [] c = "7" -> 7
    [] c = "8" -> 8 [] c = "9" -> 9

DigitChar(n) ==
  CASE n = 0 -> "0" [] n = 1 -> "1" [] n = 2 -> "2" [] n = 3 -> "3"
    [] n = 4 -> "4" [] n = 5 -> "5" [] n = 6 -> "6" [] n = 7 -> "7"
    [] n = 8 -> "8" [] n = 9 -> "9"

Drop(s, n) == SubSeq(s, n + 1, Len(s))

Take(s, n) == SubSeq(s, 1, n)

AllIn(s, S) == \A i \in 1..Len(s) : s[i] \in S

\* length of the longest run of characters of S that starts at s[i]
RECURSIVE RunLen(_, _, _)
RunLen(s, i, S) ==
  IF i <= Len(s) /\ s[i] \in S THEN 1 + RunLen(s, i + 1, S) ELSE 0

StartsWith(s, p) == Len(p) <= Len(s) /\ Take(s, Len(p)) = p

\* int() of a run of decimal digits
RECURSIVE DecValue(_)
DecValue(s) ==
  IF s = <<>> THEN 0
  ELSE 10 * DecValue(Take(s, Len(s) - 1)) + DigitVal(s[Len(s)])

\* int(s) for a text matching [-+]?\d+
int(s) ==
  IF s[1] = "-" THEN 0 - DecValue(Tail(s))
  ELSE IF s[1] = "+" THEN DecValue(Tail(s))
  ELSE DecValue(s)

RECURSIVE DecDigits(_)
DecDigits(n) ==
  IF n < 10 THEN <<DigitChar(n)>>
  ELSE Append(DecDigits(n \div 10), DigitChar(n % 10))

\* str(n) for an integer n
str(n) == IF n < 0 THEN <<"-">> \o DecDigits(0 - n) ELSE DecDigits(n)

(***************************************************************************)
(* Values returned by roll: an integer, or a list whose items are values.  *)
(***************************************************************************)
IntV(n) == [tag |-> "int", val |-> n]

ListV(items) == [tag |-> "list", val |-> items]

(***************************************************************************)
(* operators (roll.py 25-32): the comparison named by a key of the dict.   *)
(***************************************************************************)
operators ==
  {<<"<">>, <<"<", "=">>, <<">">>, <<">", "=">>, <<"=", "=">>, <<"!", "=">>}

\* a slip in the table: every key compares with <=
ApplyOperator_le(op, a, b) == a <= b

ApplyOperator(op, a, b) ==
  CASE op = <<"<">> -> a < b
    [] op = <<"<", "=">> -> a <= b
    [] op = <<">">> -> a > b
    [] op = <<">", "=">> -> a >= b
    [] op = <<"=", "=">> -> a = b
    [] op = <<"!", "=">> -> a # b

(***************************************************************************)
(* prefix_to_func (roll.py 34-42): a defaultdict, sum for a missing key.   *)
(***************************************************************************)
adv == <<"a", "d", "v">>

advantage == <<"a", "d", "v", "a", "n", "t", "a", "g", "e">>

dis == <<"d", "i", "s">>

disadv == <<"d", "i", "s", "a", "d", "v">>

disadvantage == <<"d", "i", "s", "a", "d", "v", "a", "n", "t", "a", "g", "e">>

sumkey == <<"s", "u", "m">>

\* the keys of prefix_to_func, the alternatives of roll_pattern's second group
_prefixes == {adv, advantage, dis, disadv, disadvantage, sumkey}

\* a slip in the table: disadvantage takes the maximum too
prefix_to_func_max(prefix) ==
  IF prefix \in {adv, advantage, dis, disadv, disadvantage} THEN "max" ELSE "sum"

prefix_to_func(prefix) ==
  IF prefix \in {adv, advantage} THEN "max"
  ELSE IF prefix \in {dis, disadv, disadvantage} THEN "min"
  ELSE "sum"

RECURSIVE SeqSum(_)
SeqSum(s) == IF s = <<>> THEN 0 ELSE s[1] + SeqSum(Tail(s))

SeqMax(s) == CHOOSE m \in {s[i] : i \in 1..Len(s)} : \A j \in 1..Len(s) : s[j] <= m

SeqMin(s) == CHOOSE m \in {s[i] : i \in 1..Len(s)} : \A j \in 1..Len(s) : m <= s[j]

\* func(rolls) for a non-empty list, or for sum
ApplyFunc(func, rolls) ==
  CASE func = "max" -> SeqMax(rolls)
    [] func = "min" -> SeqMin(rolls)
    [] func = "sum" -> SeqSum(rolls)

(***************************************************************************)
(* roll_pattern (roll.py 45): ([-+])?(prefixes)?(\d+)?[dD](\d+), fullmatch.*)
(* The order of the alternatives of the second group is the iteration      *)
(* order of a set, so the match is the set of all decompositions; a text   *)
(* has at most one.                                                        *)
(***************************************************************************)
RollPatternParses(subsum) ==
  LET signed == subsum # <<>> /\ subsum[1] \in SignChars
      rest == IF signed THEN Tail(subsum) ELSE subsum
  IN { [ok |-> TRUE,
        sign |-> IF signed THEN <<subsum[1]>> ELSE None,
        prefix |-> p,
        dice |-> SubSeq(rest, Len(p) + 1, Len(p) + RunLen(rest, Len(p) + 1, Digits)),
        sides |-> Drop(rest, Len(p) + RunLen(rest, Len(p) + 1, Digits) + 1)] :
       p \in { q \in _prefixes \cup {None} :
                 /\ StartsWith(rest, q)
                 /\ LET k == Len(q) + RunLen(rest, Len(q) + 1, Digits)
                    IN /\ k + 1 < Len(rest)
                       /\ rest[k + 1] \in {"d", "D"}
                       /\ AllIn(Drop(rest, k + 1), Digits) } }

\* a slip: any run of letters is taken for a prefix
roll_pattern_fullmatch_any_prefix(subsum) ==
  LET signed == subsum # <<>> /\ subsum[1] \in SignChars
      rest == IF signed THEN Tail(subsum) ELSE subsum
      k == RunLen(rest, 1, Letters \ {"d", "D"})
      n == RunLen(rest, k + 1, Digits)
  IN IF RollPatternParses(subsum) # {}
       THEN CHOOSE m \in RollPatternParses(subsum) : TRUE
     ELSE IF /\ k + n + 1 < Len(rest)
             /\ rest[k + n + 1] \in {"d", "D"}
             /\ AllIn(Drop(rest, k + n + 1), Digits)
       THEN [ok |-> TRUE, sign |-> IF signed THEN <<subsum[1]>> ELSE None,
             prefix |-> Take(rest, k), dice |-> SubSeq(rest, k + 1, k + n),
             sides |-> Drop(rest, k + n + 1)]
     ELSE [ok |-> FALSE, sign |-> None, prefix |-> None, dice |-> None, sides |-> None]

roll_pattern_fullmatch(subsum) ==
  IF RollPatternParses(subsum) = {}
    THEN [ok |-> FALSE, sign |-> None, prefix |-> None, dice |-> None, sides |-> None]
    ELSE CHOOSE m \in RollPatternParses(subsum) : TRUE

\* re.fullmatch(r"[-+]?\d+", subsum) (roll.py 71)
IsSignedInt(subsum) ==
  LET signed == subsum # <<>> /\ subsum[1] \in SignChars
      rest == IF signed THEN Tail(subsum) ELSE subsum
  IN rest # <<>> /\ AllIn(rest, Digits)

\* re.findall(r"[-+]?[0-9a-zA-Z]+", subroll) (roll.py 57), scanning from s[i]
RECURSIVE findall(_, _)
findall(s, i) ==
  IF i > Len(s) THEN <<>>
  ELSE LET signed == s[i] \in SignChars
           n == RunLen(s, IF signed THEN i + 1 ELSE i, Alnum)
           len == IF signed THEN n + 1 ELSE n
       IN IF n = 0 THEN findall(s, i + 1)
          ELSE <<SubSeq(s, i, i + len - 1)>> \o findall(s, i + len)

(***************************************************************************)
(* The random source.  Raw(tape, i) is the generator's i-th output after   *)
(* the seed; randint casts it into the range asked for.                    *)
(***************************************************************************)
Raw(tape, i) == IF i <= Len(tape) THEN tape[i] ELSE 0

\* random.randint(lo, hi): a value of lo .. hi
randint(lo, hi, raw) == lo + (raw % (hi - lo + 1))

\* a slip: the faces start at 0
d_from_zero(sides, dice, tape, pos) ==
  IF dice > 0 /\ sides < 1
    THEN [err |-> "ValueError", rolls |-> <<>>]
    ELSE [err |-> "",
          rolls |-> [i \in 1..dice |-> randint(0, sides, Raw(tape, pos + i))]]

\* d (roll.py 51-52): dice draws of randint(1, sides); randint raises
\* ValueError on an empty range
d(sides, dice, tape, pos) ==
  IF dice > 0 /\ sides < 1
    THEN [err |-> "ValueError", rolls |-> <<>>]
    ELSE [err |-> "",
          rolls |-> [i \in 1..dice |-> randint(1, sides, Raw(tape, pos + i))]]

(***************************************************************************)
(* A line of the printed trace.                                            *)
(***************************************************************************)
Line(kind, text, dice, sides, rolls, func, value, list) ==
  [kind |-> kind, text |-> text, dice |-> dice, sides |-> sides,
   rolls |-> rolls, func |-> func, value |-> value, list |-> list]

(***************************************************************************)
(* basic_roll (roll.py 54-78).  The loop body for one token of findall,    *)
(* on the accumulated [result, pos, lines, err]; an exception ends it.     *)
(***************************************************************************)
\* a slip: the sign of a dice term is dropped
basic_roll_token_unsigned(acc, subsum, tape, noprint) ==
  LET matches == roll_pattern_fullmatch(subsum) IN
  IF acc.err # "" THEN acc
  ELSE IF matches.ok THEN
    LET func == prefix_to_func(matches.prefix)
        dice == IF matches.dice = None THEN 1 ELSE int(matches.dice)
        sides == int(matches.sides)
        drawn == d(sides, dice, tape, acc.pos)
        rolls == drawn.rolls
    IN IF drawn.err # "" THEN [acc EXCEPT !.err = drawn.err]
       ELSE IF rolls = <<>> /\ func # "sum"
         THEN [acc EXCEPT !.err = "ValueError", !.pos = acc.pos + dice]
       ELSE [result |-> acc.result + ApplyFunc(func, rolls),
             pos |-> acc.pos + dice,
             lines |-> IF noprint THEN acc.lines
                       ELSE Append(acc.lines,
                                   Line("term", subsum, dice, sides, rolls, func,
                                        ApplyFunc(func, rolls), <<>>)),
             err |-> ""]
  ELSE IF IsSignedInt(subsum) THEN
    [acc EXCEPT !.result = acc.result + int(subsum),
                !.lines = IF noprint THEN acc.lines
                          ELSE Append(acc.lines,
                                      Line("literal", subsum, 0, 0, <<>>, "",
                                           int(subsum), <<>>))]
  ELSE acc

basic_roll_token(acc, subsum, tape, noprint) ==
  LET matches == roll_pattern_fullmatch(subsum) IN
  IF acc.err # "" THEN acc
  ELSE IF matches.ok THEN
    LET sign == IF matches.sign = <<"-">> THEN -1 ELSE 1
        func == prefix_to_func(matches.prefix)
        dice == IF matches.dice = None THEN 1 ELSE int(matches.dice)
        sides == int(matches.sides)
        drawn == d(sides, dice, tape, acc.pos)
        rolls == drawn.rolls
    IN IF drawn.err # "" THEN [acc EXCEPT !.err = drawn.err]
       ELSE IF rolls = <<>> /\ func # "sum"
         THEN [acc EXCEPT !.err = "ValueError", !.pos = acc.pos + dice]
       ELSE [result |-> acc.result + sign * ApplyFunc(func, rolls),
             pos |-> acc.pos + dice,
             lines |-> IF noprint THEN acc.lines
                       ELSE Append(acc.lines,
                                   Line("term", subsum, dice, sides, rolls, func,
                                        ApplyFunc(func, rolls), <<>>)),
             err |-> ""]
  ELSE IF IsSignedInt(subsum) THEN
    [acc EXCEPT !.result = acc.result + int(subsum),
                !.lines = IF noprint THEN acc.lines
                          ELSE Append(acc.lines,
                                      Line("literal", subsum, 0, 0, <<>>, "",
                                           int(subsum), <<>>))]
  ELSE acc

RECURSIVE basic_roll_loop(_, _, _, _)
basic_roll_loop(acc, tokens, tape, noprint) ==
  IF tokens = <<>> THEN acc
  ELSE basic_roll_loop(basic_roll_token(acc, tokens[1], tape, noprint),
                       Tail(tokens), tape, noprint)

basic_roll(subroll, tape, pos, noprint) ==
  basic_roll_loop([result |-> 0, pos |-> pos, lines |-> <<>>, err |-> ""],
                  findall(subroll, 1), tape, noprint)

(***************************************************************************)
(* The clause pattern of roll (roll.py 87), fullmatch:                     *)
(*     (?:(\d+)x)?(.*?)([<>=!]+\d+)?(-->x?.*?)?                            *)
(* '.' matches every character but the newline.                            *)
(***************************************************************************)
Arrow == <<"-", "-", ">">>

NoNewline(s) == \A i \in 1..Len(s) : s[i] # "\n"

\* a slip: -->x.*?, the x made mandatory
DamageMatch_needs_x(u) == StartsWith(u, Arrow \o <<"x">>) /\ NoNewline(u)

\* (-->x?.*?)? followed by the end of the text: the group takes all of u
DamageMatch(u) == StartsWith(u, Arrow) /\ NoNewline(u)

\* ([<>=!]+\d+)?(-->x?.*?)? against all of t.  The greedy third group is
\* tried first; giving back one of its characters leaves a character that
\* neither \d+, '-->' nor the end of the text matches.
SuffixMatch(t) ==
  LET no == RunLen(t, 1, OpChars)
      nd == RunLen(t, no + 1, Digits)
      after == Drop(t, no + nd)
  IN IF no > 0 /\ nd > 0 /\ (after = <<>> \/ DamageMatch(after))
       THEN [ok |-> TRUE, DC |-> Take(t, no + nd), damage |-> after]
     ELSE IF t = <<>> \/ DamageMatch(t)
       THEN [ok |-> TRUE, DC |-> None, damage |-> t]
     ELSE [ok |-> FALSE, DC |-> None, damage |-> None]

\* (.*?) and the suffix groups against all of r: the lazy second group takes
\* the shortest body after which the suffix groups match the rest
BodyMatch(r) ==
  LET Ls == {L \in 0..Len(r) : NoNewline(Take(r, L)) /\ SuffixMatch(Drop(r, L)).ok}
      L0 == CHOOSE L \in Ls : \A M \in Ls : L <= M
  IN IF Ls = {}
       THEN [ok |-> FALSE, subroll |-> <<>>, DC |-> None, damage |-> None]
       ELSE [ok |-> TRUE, subroll |-> Take(r, L0),
             DC |-> SuffixMatch(Drop(r, L0)).DC,
             damage |-> SuffixMatch(Drop(r, L0)).damage]

\* the whole pattern: the optional repeat prefix is tried first
clause_fullmatch(s) ==
  LET nd == RunLen(s, 1, Digits)
      prefixed == nd > 0 /\ nd < Len(s) /\ s[nd + 1] = "x"
      m == IF prefixed /\ BodyMatch(Drop(s, nd + 1)).ok
             THEN BodyMatch(Drop(s, nd + 1))
             ELSE BodyMatch(s)
  IN [ok |-> m.ok,
      times |-> IF prefixed /\ BodyMatch(Drop(s, nd + 1)).ok THEN Take(s, nd) ELSE None,
      subroll |-> m.subroll, DC |-> m.DC, damage |-> m.damage]

\* text.replace(" ", "") (roll.py 83)
RECURSIVE replace_spaces(_)
replace_spaces(s) ==
  IF s = <<>> THEN <<>>
  ELSE IF s[1] = " " THEN replace_spaces(Tail(s))
  ELSE <<s[1]>> \o replace_spaces(Tail(s))

\* s.find(c): the index of the first c in s, 0 when there is none
RECURSIVE Find(_, _, _)
Find(s, c, i) ==
  IF i > Len(s) THEN 0 ELSE IF s[i] = c THEN i ELSE Find(s, c, i + 1)

\* a slip: the pieces come out last first
RECURSIVE split_backwards(_)
split_backwards(s) ==
  IF Find(s, ";", 1) = 0 THEN <<s>>
  ELSE split_backwards(Drop(s, Find(s, ";", 1))) \o <<Take(s, Find(s, ";", 1) - 1)>>

\* s.split(";") (roll.py 83): the pieces between the semicolons, at least one
RECURSIVE split(_)
split(s) ==
  IF Find(s, ";", 1) = 0 THEN <<s>>
  ELSE <<Take(s, Find(s, ";", 1) - 1)>> \o split(Drop(s, Find(s, ";", 1)))

\* the count of line 102: the numbers of subresult for which op(num, dc) holds
RECURSIVE CountIf(_, _, _)
CountIf(subresult, op, dc) ==
  IF subresult = <<>> THEN 0
  ELSE (IF ApplyOperator(op, subresult[1].val, dc) THEN 1 ELSE 0)
       + CountIf(Tail(subresult), op, dc)

(***************************************************************************)
(* State.                                                                  *)
(***************************************************************************)
VARIABLES
  input,    \* the expression the driver's text was written from
  text,     \* the text of the driver's first call of roll
  phase,    \* the driver: "first", "running", "second", "rerunning" (its
            \* last call), "done"
  call,     \* the driver's current call: [text, noprint, variant]
  stack,    \* the frames of the active roll invocations, innermost last
  tape,     \* the outputs of the seeded generator, as far as drawn
  pos,      \* outputs consumed since the last random.seed
  out,      \* lines printed since the last random.seed
  rolled    \* the outcome of each finished call: [ret, err, pos, out]

rollvars == <<input, text, phase, call, stack, tape, pos, out, rolled>>

(***************************************************************************)
(* State of the other program of the repository, i3auto-assign-workspace:  *)
(* the window manager as i3-msg reports it, and the script's run.          *)
(***************************************************************************)
VARIABLES
  command,            \* args.command
  legal_assignments,  \* args.legal_workspaces, a list of texts
  outputs,            \* i3-msg -t get_outputs: [name, active, primary, rect]
  workspaces,         \* i3-msg -t get_workspaces: [name, output]
  tree,               \* i3-msg -t get_tree: the workspace each window is in
  started,            \* the tree when the script started
  proc,               \* the script: its position and its local variables
  args,               \* the other arguments: [assignments, type, program_name]
  nodes,              \* i3-msg -t get_tree: [class, instance, title] of each window
  focus,              \* the focused workspace and window: [workspace, window]
  issued,             \* the commands run so far: [command, argument, returncode]
  called              \* the workspaces, the focus and the number of commands
                      \* run when the script started or last called move_to_monitor

i3vars ==
  <<command, legal_assignments, outputs, workspaces, tree, started, proc,
    args, nodes, focus, issued, called>>

(***************************************************************************)
(* State of the third program, foreach: the directories it runs in.  A    *)
(* path is the sequence of the names from the root directory.              *)
(***************************************************************************)
VARIABLES
  argv,     \* sys.argv
  fs,       \* the file system: [dirs, files, links], links from path to path
  cwd,      \* the working directory of the process, a path of fs.dirs
  each,     \* foreach: its position, its command, the entries still to visit
  ran,      \* the commands run so far: [entry, cwd, returncode]
  printed   \* the lines printed so far

eachvars == <<argv, fs, cwd, each, ran, printed>>

vars == <<rollvars, i3vars, eachvars>>

\* foreach is not run
NoForeach ==
  /\ argv = <<>>
  /\ fs = <<>>
  /\ cwd = <<>>
  /\ each = [pc |-> "off"]
  /\ ran = <<>>
  /\ printed = <<>>

\* roll is not run
NoRoll ==
  /\ input = <<>>
  /\ text = <<>>
  /\ phase = "off"
  /\ call = <<>>
  /\ stack = <<>>
  /\ tape = <<>>
  /\ pos = 0
  /\ out = <<>>
  /\ rolled = <<>>

\* the script is not run
NoScript ==
  /\ command = ""
  /\ legal_assignments = <<>>
  /\ outputs = <<>>
  /\ workspaces = <<>>
  /\ tree = <<>>
  /\ started = <<>>
  /\ proc = [pc |-> "off"]
  /\ args = <<>>
  /\ nodes = <<>>
  /\ focus = <<>>
  /\ issued = <<>>
  /\ called = <<>>

\* roll.py 80-85: the blank line and the frame of a roll invocation
EnterLines(noprint) ==
  IF noprint THEN <<>> ELSE <<Line("blank", <<>>, 0, 0, <<>>, "", 0, <<>>)>>

EnterFrame(t, noprint) ==
  [text |-> t, noprint |-> noprint,
   subrolls |-> split(replace_spaces(t)),
   result |-> <<>>,
   clause |-> <<>>, times |-> 0, subroll |-> <<>>, DC |-> None, damage |-> None,
   subresult |-> <<>>,
   pc |-> "for"]

Top == stack[Len(stack)]

SetTop(f) == [stack EXCEPT ![Len(stack)] = f]

Running == phase \in {"running", "rerunning"} /\ stack # <<>>

\* the driver gets the outcome of its call
Finish(ret, err, lines) ==
  /\ rolled' = Append(rolled, [ret |-> ret, err |-> err, pos |-> pos', out |-> lines])
  /\ out' = lines
  /\ stack' = <<>>
  /\ phase' = IF phase = "running" THEN "second" ELSE "done"

\* an exception: no frame catches it
Raise(err) ==
  /\ pos' = pos
  /\ Finish(IntV(0), err, out)

(***************************************************************************)
(* roll (roll.py 80-112), one action per step of its loop.                 *)
(***************************************************************************)
\* a slip: int(matches.group(1)) or 1, a count of 0 taken for none
times_zero_as_one(group) ==
  IF group = None \/ int(group) = 0 THEN 1 ELSE int(group)

\* roll.py 88: int(matches.group(1) or 1)
times_of(group) == IF group = None THEN 1 ELSE int(group)

\* roll.py 86-94: the next clause is matched against the clause pattern
MatchClause ==
  /\ UNCHANGED <<i3vars, eachvars>>
  /\ Running
  /\ Top.pc = "for"
  /\ Top.subrolls # <<>>
  /\ LET matches == clause_fullmatch(Top.subrolls[1]) IN
       IF ~matches.ok
         THEN /\ Raise("AttributeError")
              /\ UNCHANGED <<input, text, call, tape>>
         ELSE /\ stack' = SetTop([Top EXCEPT
                     !.subrolls = Tail(Top.subrolls),
                     !.clause = Top.subrolls[1],
                     !.times = times_of(matches.times),
                     !.subroll = matches.subroll,
                     !.DC = matches.DC,
                     !.damage = matches.damage,
                     !.subresult = <<>>,
                     !.pc = "times"])
              /\ UNCHANGED <<input, text, phase, call, tape, pos, out, rolled>>

\* roll.py 95-99: one repetition, a basic_roll of the body; the outputs it
\* draws beyond the known tape are any outputs of the generator
Repeat ==
  /\ UNCHANGED <<i3vars, eachvars>>
  /\ Running
  /\ Top.pc = "times"
  /\ Len(Top.subresult) < Top.times
  /\ LET need == basic_roll(Top.subroll, tape, pos, FALSE).pos IN
       /\ need <= MaxTape
       /\ \E ext \in [1..(need - Len(tape)) -> 0..(MaxRaw - 1)] :
            LET r == basic_roll(Top.subroll, tape \o ext, pos, FALSE) IN
              /\ tape' = tape \o ext
              /\ pos' = r.pos
              /\ IF r.err # ""
                   THEN Finish(IntV(0), r.err, out \o r.lines)
                   ELSE /\ out' = out \o r.lines \o
                             (IF Top.noprint THEN <<>>
                              ELSE <<Line("repetition", Top.subroll, 0, 0, <<>>, "",
                                          r.result, <<>>)>>)
                        /\ stack' = SetTop([Top EXCEPT
                               !.subresult = Append(Top.subresult, IntV(r.result))])
                        /\ UNCHANGED <<phase, rolled>>
  /\ UNCHANGED <<input, text, call>>

\* a slip: damage[2:], the arrow's head left in the text
damage_text_off_by_one(subresult, damage) ==
  str(subresult[1].val) \o Drop(damage, 2)

\* roll.py 106: str(subresult[0])+damage[3:]
\* a slip: damage[0:], the arrow kept in the nested text
damage_text_with_arrow(subresult, damage) == str(subresult[1].val) \o damage

damage_text(subresult, damage) == str(subresult[1].val) \o Drop(damage, 3)

\* a slip: result.append(subresult), the clause's items as one nested item
extend_as_append(result, subresult) == Append(result, ListV(subresult))

\* roll.py 108: result.extend(subresult)
extend(result, subresult) == result \o subresult

\* roll.py 100-108: the comparison turns the totals into a count (an unknown
\* operator is a KeyError); then either the damage suffix calls roll on the
\* count followed by the damage text, or the clause's items join the result
Suffix ==
  /\ UNCHANGED <<i3vars, eachvars>>
  /\ Running
  /\ Top.pc = "times"
  /\ Len(Top.subresult) = Top.times
  /\ LET op == Take(Top.DC, RunLen(Top.DC, 1, OpChars))
         dc == Drop(Top.DC, RunLen(Top.DC, 1, OpChars))
         subresult == IF Top.DC = None THEN Top.subresult
                      ELSE <<IntV(CountIf(Top.subresult, op, int(dc)))>>
     IN IF Top.DC # None /\ op \notin operators
          THEN Raise("KeyError")
        ELSE IF Top.damage = None
          THEN /\ stack' = SetTop([Top EXCEPT !.subresult = subresult,
                                              !.result = extend(Top.result, subresult),
                                              !.pc = "for"])
               /\ UNCHANGED <<phase, pos, out, rolled>>
        ELSE IF Len(subresult) # 1
          THEN Raise("AssertionError")
        ELSE /\ stack' = Append(SetTop([Top EXCEPT !.subresult = subresult,
                                                   !.pc = "damage"]),
                                EnterFrame(damage_text(subresult, Top.damage), FALSE))
             /\ out' = out \o EnterLines(FALSE)
             /\ UNCHANGED <<phase, pos, rolled>>
  /\ UNCHANGED <<input, text, call, tape>>

\* roll.py 110-112: the summary line and the returned value; in a nested call
\* the caller's clause takes the value as its only item (roll.py 106, 108)
\* a slip: the result list returned as it is
ReturnValue_never_unwrapped(result) == ListV(result)

ReturnValue(result) == IF Len(result) = 1 THEN result[1] ELSE ListV(result)

Return ==
  /\ UNCHANGED <<i3vars, eachvars>>
  /\ Running
  /\ Top.pc = "for"
  /\ Top.subrolls = <<>>
  /\ LET lines == out \o
           (IF Top.noprint THEN <<>>
            ELSE <<Line("summary", Top.text, 0, 0, <<>>, "", 0, Top.result)>>)
         caller == stack[Len(stack) - 1]
     IN IF Len(stack) = 1
          THEN /\ pos' = pos
               /\ Finish(ReturnValue(Top.result), "", lines)
          ELSE /\ out' = lines
               /\ stack' = [SubSeq(stack, 1, Len(stack) - 1) EXCEPT
                              ![Len(stack) - 1] =
                                 [caller EXCEPT
                                    !.subresult = <<ReturnValue(Top.result)>>,
                                    !.result = extend(caller.result,
                                                      <<ReturnValue(Top.result)>>),
                                    !.pc = "for"]]
               /\ UNCHANGED <<phase, pos, rolled>>
  /\ UNCHANGED <<input, text, call, tape>>

(***************************************************************************)
(* The expressions the driver rolls.  An expression is a list of clauses,  *)
(* a clause a repeat count (-1: none), a list of terms, a comparison       *)
(* (op "": none) and a damage suffix (the arrow, an optional x and a list  *)
(* of terms); a term is a sign (0: none), and a dice term (dice -1: no     *)
(* count), an integer literal or an unrecognised word.  Written is the     *)
(* text of an expression.                                                  *)
(***************************************************************************)
Dice(sign, prefix, dice, sides) ==
  [kind |-> "dice", sign |-> sign, prefix |-> prefix, dice |-> dice,
   sides |-> sides, value |-> 0, word |-> <<>>]

Literal(sign, value) ==
  [kind |-> "literal", sign |-> sign, prefix |-> "", dice |-> 0,
   sides |-> 0, value |-> value, word |-> <<>>]

Junk(sign, word) ==
  [kind |-> "junk", sign |-> sign, prefix |-> "", dice |-> 0,
   sides |-> 0, value |-> 0, word |-> word]

Clause(times, terms, op, dc, damage) ==
  [times |-> times, terms |-> terms, op |-> op, dc |-> dc, damage |-> damage]

NoDamage == [present |-> FALSE, x |-> FALSE, terms |-> <<>>]

DamageOf(x, terms) == [present |-> TRUE, x |-> x, terms |-> terms]

Plain(terms) == Clause(-1, terms, "", 0, NoDamage)

Expression(family, clauses, free) ==
  [family |-> family, clauses |-> clauses, free |-> free]

RECURSIVE Numeral(_)
Numeral(n) ==
  (IF n >= 10 THEN Numeral(n \div 10) ELSE <<>>)
    \o <<CASE n % 10 = 0 -> "0" [] n % 10 = 1 -> "1" [] n % 10 = 2 -> "2"
           [] n % 10 = 3 -> "3" [] n % 10 = 4 -> "4" [] n % 10 = 5 -> "5"
           [] n % 10 = 6 -> "6" [] n % 10 = 7 -> "7" [] n % 10 = 8 -> "8"
           [] n % 10 = 9 -> "9">>

SignText(sign) == IF sign = 0 THEN <<>> ELSE IF sign < 0 THEN <<"-">> ELSE <<"+">>

PrefixText(prefix) ==
  CASE prefix = "" -> <<>>
    [] prefix = "adv" -> <<"a", "d", "v", " ">>
    [] prefix = "advantage" -> <<"a", "d", "v", "a", "n", "t", "a", "g", "e">>
    [] prefix = "dis" -> <<"d", "i", "s", " ">>
    [] prefix = "disadv" -> <<"d", "i", "s", "a", "d", "v">>
    [] prefix = "disadvantage" ->
         <<"d", "i", "s", "a", "d", "v", "a", "n", "t", "a", "g", "e", " ">>
    [] prefix = "sum" -> <<"s", "u", "m", " ">>

OpText(op) ==
  CASE op = "" -> <<>>
    [] op = "<" -> <<"<">>
    [] op = "<=" -> <<"<", "=">>
    [] op = ">" -> <<">">>
    [] op = ">=" -> <<">", "=">>
    [] op = "==" -> <<"=", "=">>
    [] op = "!=" -> <<"!", "=">>

WrittenTerm(t) ==
  SignText(t.sign) \o
    (CASE t.kind = "dice" ->
            PrefixText(t.prefix)
              \o (IF t.dice < 0 THEN <<>> ELSE Numeral(t.dice))
              \o <<"d">> \o Numeral(t.sides)
       [] t.kind = "literal" -> Numeral(t.value)
       [] t.kind = "junk" -> t.word)

RECURSIVE WrittenTerms(_)
WrittenTerms(terms) ==
  IF terms = <<>> THEN <<>> ELSE WrittenTerm(terms[1]) \o WrittenTerms(Tail(terms))

WrittenClause(c) ==
  (IF c.times < 0 THEN <<>> ELSE Numeral(c.times) \o <<"x">>)
    \o WrittenTerms(c.terms)
    \o (IF c.op = "" THEN <<>> ELSE OpText(c.op) \o Numeral(c.dc))
    \o (IF ~c.damage.present THEN <<>>
        ELSE <<"-", "-", ">">> \o (IF c.damage.x THEN <<"x">> ELSE <<>>)
               \o WrittenTerms(c.damage.terms))

RECURSIVE WrittenClauses(_)
WrittenClauses(clauses) ==
  IF Len(clauses) = 1 THEN WrittenClause(clauses[1])
  ELSE WrittenClause(clauses[1]) \o <<";", " ">> \o WrittenClauses(Tail(clauses))

Written(e) == IF e.family = "free" THEN e.free ELSE WrittenClauses(e.clauses)

\* sequences of 1 .. n elements of S
SeqsUpTo(S, n) == UNION {[1..k -> S] : k \in 1..n}

Prefixes == {"", "adv", "advantage", "dis", "disadv", "disadvantage", "sum"}

Ops == {"<", "<=", ">", ">=", "==", "!="}

\* family "body": one clause, a head term and up to MaxTerms - 1 signed terms
HeadTerms ==
  {Dice(0, p, 2, 2) : p \in Prefixes}
    \cup {Dice(-1, "", -1, 2), Dice(1, "adv", -1, 2), Literal(0, 12)}

TailTerms == {Dice(1, "", -1, 2), Dice(-1, "dis", 2, 2), Literal(-1, 10)}

BodyExpressions ==
  {Expression("body", <<Plain(<<h>> \o t)>>, <<>>) :
     h \in HeadTerms, t \in {<<>>} \cup SeqsUpTo(TailTerms, MaxTerms - 1)}

\* family "test": bodies of test() (roll.py 14-21)
TestExpressions ==
  {Expression("test", <<Plain(b)>>, <<>>) :
     b \in {<<Dice(0, "", -1, 20)>>,
            <<Dice(0, "adv", 3, 20)>>,
            <<Dice(0, "", 2, 12), Literal(1, 10)>>,
            <<Dice(0, "dis", 2, 20), Literal(1, 6)>>,
            <<Dice(0, "adv", 2, 20), Literal(1, 4)>>}}

\* family "junk": one clause of unrecognised tokens only
JunkTokens ==
  {Junk(1, <<"x">>), Junk(-1, <<"2", "d">>), Junk(1, <<"f", "2", "d", "2">>),
   Junk(-1, <<"a", "d", "v">>)}

JunkHeads == JunkTokens \cup {Junk(0, <<"x">>), Junk(0, <<"f", "2", "d", "2">>)}

JunkExpressions ==
  {Expression("junk", <<Plain(<<h>> \o t)>>, <<>>) :
     h \in JunkHeads, t \in {<<>>} \cup SeqsUpTo(JunkTokens, MaxTerms - 1)}

\* family "clause": one clause with a repeat count, a comparison, a damage suffix
ClauseBodies == {<<Dice(0, "", -1, 2)>>, <<Literal(0, 2)>>}

Damages ==
  {NoDamage, DamageOf(TRUE, <<Dice(0, "", -1, 2)>>), DamageOf(FALSE, <<Dice(0, "", -1, 2)>>)}

ClauseExpressions ==
  {Expression("clause", <<Clause(n, b, op, dc, dmg)>>, <<>>) :
     n \in -1..MaxTimes, b \in ClauseBodies, op \in Ops \cup {""}, dc \in {1, 2},
     dmg \in Damages}

\* family "multi": 2 .. MaxClauses clauses
MultiClauses ==
  {Plain(<<Dice(0, "adv", 2, 2), Literal(1, 1)>>),
   Plain(<<Literal(0, 1), Dice(-1, "", -1, 2)>>),
   Clause(0, <<Dice(0, "", -1, 2)>>, "", 0, NoDamage),
   Clause(2, <<Dice(0, "", -1, 2)>>, "", 0, NoDamage),
   Clause(2, <<Literal(0, 2)>>, ">", 1, DamageOf(TRUE, <<Literal(0, 1)>>))}

\* a clause whose damage suffix draws, before or after another clause
DrawingDamage ==
  Clause(1, <<Dice(0, "", -1, 2)>>, ">", 1, DamageOf(TRUE, <<Dice(0, "", -1, 2)>>))

DamageChains ==
  {<<DrawingDamage, c>> : c \in MultiClauses} \cup {<<c, DrawingDamage>> : c \in MultiClauses}

MultiExpressions ==
  {Expression("multi", cs, <<>>) :
     cs \in UNION {[1..k -> MultiClauses] : k \in 2..MaxClauses} \cup DamageChains}

\* family "free": every text of at most MaxLen of these characters
FreeChars == {"d", "0", "2", "x", "-", ">", "=", ";", "\n"}

FreeExpressions ==
  {Expression("free", <<>>, t) : t \in {<<>>} \cup SeqsUpTo(FreeChars, MaxLen)}

\* texts with two arrows: the text of a damage suffix has a suffix of its own
ChainTexts ==
  {<<"2", ">", "1", "-", "-", ">", "x", "1", "-", "-", ">", "d", "2">>,
   <<"-", "-", ">", "-", "-", ">">>,
   <<"2", "x", "2", ">", "1", "-", "-", ">", "2", "-", "-", ">", "2">>,
   <<"d", "2", "-", "-", ">", "x", "2", "-", "-", ">", "x", "2">>}

ChainExpressions == {Expression("free", <<>>, t) : t \in ChainTexts}

Expressions ==
  BodyExpressions \cup TestExpressions \cup JunkExpressions
    \cup ClauseExpressions \cup MultiExpressions \cup FreeExpressions
    \cup ChainExpressions

(***************************************************************************)
(* The second call of the driver: the same text again, or the text with an *)
(* unrecognised token put before every signed term of its body and after   *)
(* the last term, where it stays a token of its own, or the text with its  *)
(* spaces, tabs and newlines taken out, or the same text with the trace    *)
(* on, as main calls roll.                                                 *)
(***************************************************************************)
InsertedTokens ==
  <<Junk(1, <<"x">>), Junk(-1, <<"2", "d">>), Junk(1, <<"f", "2", "d", "2">>),
    Junk(-1, <<"a", "d", "v">>)>>

RECURSIVE Interspersed(_, _)
Interspersed(terms, i) ==
  IF i > Len(terms) THEN <<InsertedTokens[1 + (i % Len(InsertedTokens))]>>
  ELSE (IF terms[i].sign # 0
          THEN <<InsertedTokens[1 + (i % Len(InsertedTokens))]>> ELSE <<>>)
       \o <<terms[i]>> \o Interspersed(terms, i + 1)

Whitespace == {" ", "\t", "\n"}

WithoutWhitespace(s) == SelectSeq(s, LAMBDA c : c \notin Whitespace)

Variants(e) ==
  {[text |-> Written(e), noprint |-> TRUE, variant |-> "same"]}
    \cup (IF e.family \in {"body", "test"}
            THEN {[text |-> WrittenTerms(Interspersed(e.clauses[1].terms, 1)),
                   noprint |-> TRUE, variant |-> "junk"]}
            ELSE {})
    \cup (IF e.family \in {"free", "test"} /\ WithoutWhitespace(Written(e)) # Written(e)
            THEN {[text |-> WithoutWhitespace(Written(e)),
                   noprint |-> TRUE, variant |-> "stripped"]}
            ELSE {})
    \cup (IF e.family = "test" \/ (e.family = "clause" /\ e.clauses[1].damage.present)
            THEN {[text |-> Written(e), noprint |-> FALSE, variant |-> "printing"]}
            ELSE {})

(***************************************************************************)
(* The driver (roll.py 114-120): expect seeds the generator and calls      *)
(* roll with noprint=True; main calls roll(text) from whatever state the   *)
(* generator is in, its outputs from there being the tape.                 *)
(***************************************************************************)
NoCall == [text |-> <<>>, noprint |-> FALSE, variant |-> ""]

Init ==
  /\ NoScript
  /\ NoForeach
  /\ input \in Expressions
  /\ text = Written(input)
  /\ phase = "first"
  /\ call = NoCall
  /\ stack = <<>>
  /\ tape = <<>>
  /\ pos = 0
  /\ out = <<>>
  /\ rolled = <<>>

\* roll.py 115-116: random.seed(42); roll(text, noprint=True)
Expect ==
  /\ UNCHANGED <<i3vars, eachvars>>
  /\ phase = "first"
  /\ phase' = "running"
  /\ call' = [text |-> text, noprint |-> TRUE, variant |-> "first"]
  /\ pos' = 0
  /\ out' = EnterLines(TRUE)
  /\ stack' = <<EnterFrame(text, TRUE)>>
  /\ UNCHANGED <<input, text, tape, rolled>>

\* roll.py 120: roll(text), the only call of the run
main ==
  /\ UNCHANGED <<i3vars, eachvars>>
  /\ phase = "first"
  /\ phase' = "rerunning"
  /\ call' = [text |-> text, noprint |-> FALSE, variant |-> "main"]
  /\ pos' = 0
  /\ out' = EnterLines(FALSE)
  /\ stack' = <<EnterFrame(text, FALSE)>>
  /\ UNCHANGED <<input, text, tape, rolled>>

\* a slip: the second call without random.seed
ExpectAgain_unseeded ==
  /\ UNCHANGED <<i3vars, eachvars>>
  /\ phase = "second"
  /\ phase' = "rerunning"
  /\ \E c \in Variants(input) :
       /\ call' = c
       /\ out' = EnterLines(c.noprint)
       /\ stack' = <<EnterFrame(c.text, c.noprint)>>
  /\ pos' = pos
  /\ UNCHANGED <<input, text, tape, rolled>>

\* roll.py 115-116 again: random.seed(42); roll(variant of text, noprint=True)
ExpectAgain ==
  /\ UNCHANGED <<i3vars, eachvars>>
  /\ phase = "second"
  /\ phase' = "rerunning"
  /\ \E c \in Variants(input) :
       /\ call' = c
       /\ out' = EnterLines(c.noprint)
       /\ stack' = <<EnterFrame(c.text, c.noprint)>>
  /\ pos' = 0
  /\ UNCHANGED <<input, text, tape, rolled>>

Next ==
  \/ Expect
  \/ main
  \/ MatchClause
  \/ Repeat
  \/ Suffix
  \/ Return
  \/ ExpectAgain

Spec == Init /\ [][Next]_vars

(***************************************************************************)
(* What an expression is worth under the outputs on the tape: the value of *)
(* its terms read off the expression, the k-th draw of a run being the     *)
(* k-th output of the tape cast as a die.                                  *)
(***************************************************************************)
First == rolled[1]

TermDraws(t) == IF t.kind = "dice" THEN (IF t.dice < 0 THEN 1 ELSE t.dice) ELSE 0

FaceAt(k, sides) == 1 + (tape[k] % sides)

SignFactor(t) == IF t.sign < 0 THEN -1 ELSE 1

RECURSIVE FacesSum(_, _, _)
FacesSum(k, n, sides) ==
  IF n = 0 THEN 0 ELSE FaceAt(k + n, sides) + FacesSum(k, n - 1, sides)

FacesMax(k, n, sides) ==
  CHOOSE m \in 1..sides :
    /\ \E i \in 1..n : FaceAt(k + i, sides) = m
    /\ \A i \in 1..n : FaceAt(k + i, sides) <= m

FacesMin(k, n, sides) ==
  CHOOSE m \in 1..sides :
    /\ \E i \in 1..n : FaceAt(k + i, sides) = m
    /\ \A i \in 1..n : FaceAt(k + i, sides) >= m

\* the value of term t when its draws are the outputs k+1, k+2, ...
TermExpected(t, k) ==
  CASE t.kind = "dice" ->
         SignFactor(t) *
           (IF t.prefix \in {"adv", "advantage"} THEN FacesMax(k, TermDraws(t), t.sides)
            ELSE IF t.prefix \in {"dis", "disadv", "disadvantage"}
              THEN FacesMin(k, TermDraws(t), t.sides)
            ELSE FacesSum(k, TermDraws(t), t.sides))
    [] t.kind = "literal" -> SignFactor(t) * t.value
    [] t.kind = "junk" -> 0

RECURSIVE BodyExpected(_, _)
BodyExpected(terms, k) ==
  IF terms = <<>> THEN 0
  ELSE TermExpected(terms[1], k) + BodyExpected(Tail(terms), k + TermDraws(terms[1]))

RECURSIVE BodyDraws(_)
BodyDraws(terms) ==
  IF terms = <<>> THEN 0 ELSE TermDraws(terms[1]) + BodyDraws(Tail(terms))

Holds(op, a, b) ==
  CASE op = "<" -> a < b [] op = "<=" -> a <= b [] op = ">" -> a > b
    [] op = ">=" -> a >= b [] op = "==" -> a = b [] op = "!=" -> a # b

IsInt(v, n) == v.tag = "int" /\ v.val = n

OneClause == input.clauses[1]

(***************************************************************************)
(* C1: basic_roll of a body of sign-separated dice terms and integer       *)
(* literals returns the sum, over the tokens in order, of sign times the   *)
(* aggregation of the rolled values for a dice term and of the value of a  *)
(* signed literal ('2d12+10' with draws a, b gives a+b+10).                *)
(***************************************************************************)
C1_BodyTotal ==
  (input.family \in {"body", "test"} /\ Len(rolled) >= 1) =>
    /\ First.err = ""
    /\ IsInt(First.ret, BodyExpected(OneClause.terms, 0))

\* '2d12+10' was rolled with the draws 1 and 2
C1_Witness ==
  /\ input.family = "test"
  /\ OneClause.terms = <<Dice(0, "", 2, 12), Literal(1, 10)>>
  /\ Len(rolled) >= 1
  /\ SubSeq(tape, 1, 2) = <<0, 1>>
  /\ IsInt(First.ret, 13)

(***************************************************************************)
(* C2: the aggregation of a dice term is fixed by its prefix: adv and      *)
(* advantage give the maximum of the rolled values, dis, disadv and        *)
(* disadvantage the minimum, sum and no prefix the sum; a lone 'adv 3d20'  *)
(* is worth the maximum of its 3 draws.                                    *)
(***************************************************************************)
TermLines(lines) == SelectSeq(lines, LAMBDA l : l.kind = "term")

DiceTerms(terms) == SelectSeq(terms, LAMBDA t : t.kind = "dice")

Highest(rolls) == CHOOSE m \in {rolls[i] : i \in 1..Len(rolls)} :
                    \A i \in 1..Len(rolls) : rolls[i] <= m

Lowest(rolls) == CHOOSE m \in {rolls[i] : i \in 1..Len(rolls)} :
                   \A i \in 1..Len(rolls) : rolls[i] >= m

RECURSIVE Added(_)
Added(rolls) == IF Len(rolls) = 0 THEN 0 ELSE Head(rolls) + Added(Tail(rolls))

C2_AggregationByPrefix ==
  (input.family \in {"body", "test"} /\ Len(rolled) >= 1) =>
    LET lines == TermLines(First.out)
        terms == DiceTerms(OneClause.terms)
    IN /\ Len(lines) = Len(terms)
       /\ \A i \in 1..Len(terms) :
            /\ terms[i].prefix \in {"adv", "advantage"} =>
                 lines[i].func = "max" /\ lines[i].value = Highest(lines[i].rolls)
            /\ terms[i].prefix \in {"dis", "disadv", "disadvantage"} =>
                 lines[i].func = "min" /\ lines[i].value = Lowest(lines[i].rolls)
            /\ terms[i].prefix \in {"sum", ""} =>
                 lines[i].func = "sum" /\ lines[i].value = Added(lines[i].rolls)
       /\ (Len(OneClause.terms) = 1 /\ Len(terms) = 1 /\ terms[1].sign = 0) =>
            IsInt(First.ret, lines[1].value)

\* 'disadvantage 2d2' rolled 1 and 2 and is worth 1
C2_Witness ==
  /\ input.family = "body"
  /\ OneClause.terms = <<Dice(0, "disadvantage", 2, 2)>>
  /\ Len(rolled) >= 1
  /\ TermLines(First.out)[1].rolls = <<1, 2>>
  /\ IsInt(First.ret, 1)

(***************************************************************************)
(* C3: for a single clause 'Nx body op T' with op one of < <= > >= == !=   *)
(* and N >= 0, roll returns one integer in 0 .. N, the number of the N     *)
(* repetitions whose total satisfies 'total op T'; the totals themselves   *)
(* are not in the result.                                                  *)
(***************************************************************************)
Reps(c) == IF c.times < 0 THEN 1 ELSE c.times

Passing(c, k) ==
  {i \in 1..Reps(c) :
     Holds(c.op, BodyExpected(c.terms, k + (i - 1) * BodyDraws(c.terms)), c.dc)}

C3_ThresholdCount ==
  (/\ input.family = "clause"
   /\ OneClause.times >= 0 /\ OneClause.op # "" /\ ~OneClause.damage.present
   /\ Len(rolled) >= 1) =>
    /\ First.err = ""
    /\ First.ret.tag = "int"
    /\ First.ret.val \in 0..OneClause.times
    /\ First.ret.val = Cardinality(Passing(OneClause, 0))

\* '2xd2<2' rolled 1 and 2: one repetition of the two is below 2
C3_Witness ==
  /\ input.family = "clause"
  /\ OneClause = Clause(2, <<Dice(0, "", -1, 2)>>, "<", 2, NoDamage)
  /\ Len(rolled) >= 1
  /\ SubSeq(tape, 1, 2) = <<0, 1>>
  /\ IsInt(First.ret, 1)

(***************************************************************************)
(* C4: for k >= 2 clauses without repeat count or suffix, roll returns a   *)
(* sequence of exactly k integers, the i-th the total of the i-th clause,  *)
(* and the draws are consumed in declaration order: those of clause i      *)
(* before those of clause i+1, those of an earlier term before those of a  *)
(* later term.                                                             *)
(***************************************************************************)
IsPlain(c) == c.times < 0 /\ c.op = "" /\ ~c.damage.present

RECURSIVE DrawsBefore(_, _)
DrawsBefore(clauses, i) ==
  IF i = 1 THEN 0
  ELSE DrawsBefore(clauses, i - 1) + BodyDraws(clauses[i - 1].terms)

C4_ClausesInOrder ==
  (/\ input.family = "multi"
   /\ \A i \in 1..Len(input.clauses) : IsPlain(input.clauses[i])
   /\ Len(rolled) >= 1) =>
    /\ First.err = ""
    /\ First.ret.tag = "list"
    /\ Len(First.ret.val) = Len(input.clauses)
    /\ \A i \in 1..Len(input.clauses) :
         IsInt(First.ret.val[i],
               BodyExpected(input.clauses[i].terms, DrawsBefore(input.clauses, i)))
    /\ First.pos = DrawsBefore(input.clauses, Len(input.clauses) + 1)

\* 'adv 2d2+1; 1-d2' with the draws 1, 2 and then 2 is [3, -1]
C4_Witness ==
  /\ input.family = "multi"
  /\ input.clauses = <<Plain(<<Dice(0, "adv", 2, 2), Literal(1, 1)>>),
                       Plain(<<Literal(0, 1), Dice(-1, "", -1, 2)>>)>>
  /\ Len(rolled) >= 1
  /\ SubSeq(tape, 1, 3) = <<0, 1, 1>>
  /\ First.ret.tag = "list"
  /\ Len(First.ret.val) = 2
  /\ IsInt(First.ret.val[1], 3)
  /\ IsInt(First.ret.val[2], -1)

(***************************************************************************)
(* The items a clause adds to the result list of roll, read off the        *)
(* expression, its draws being the outputs k+1, k+2, ...: without a suffix *)
(* one integer per repetition; with a comparison one integer, the count;   *)
(* with a damage suffix one item, the value of the nested roll of the      *)
(* count followed by the damage text: 'Kx' and terms is K repetitions of   *)
(* the terms, 'Kd' and a side count is K dice.                             *)
(***************************************************************************)
RepTotals(terms, k, n) ==
  [i \in 1..n |-> IntV(BodyExpected(terms, k + (i - 1) * BodyDraws(terms)))]

Unwrapped(items) == IF Len(items) = 1 THEN items[1] ELSE ListV(items)

ClauseCount(c, k) ==
  IF c.op = "" THEN BodyExpected(c.terms, k) ELSE Cardinality(Passing(c, k))

OwnDraws(c) == Reps(c) * BodyDraws(c.terms)

NestedExpected(c, k) ==
  IF c.damage.x
    THEN Unwrapped(RepTotals(c.damage.terms, k + OwnDraws(c), ClauseCount(c, k)))
    ELSE IntV(BodyExpected(<<[c.damage.terms[1] EXCEPT !.dice = ClauseCount(c, k)]>>
                             \o Tail(c.damage.terms),
                           k + OwnDraws(c)))

NestedDraws(c, k) ==
  IF ~c.damage.present THEN 0
  ELSE IF c.damage.x THEN ClauseCount(c, k) * BodyDraws(c.damage.terms)
  ELSE ClauseCount(c, k) + BodyDraws(Tail(c.damage.terms))

ClauseItems(c, k) ==
  IF c.damage.present THEN <<NestedExpected(c, k)>>
  ELSE IF c.op # "" THEN <<IntV(ClauseCount(c, k))>>
  ELSE RepTotals(c.terms, k, Reps(c))

RECURSIVE ExpectedItems(_, _)
ExpectedItems(clauses, k) ==
  IF clauses = <<>> THEN <<>>
  ELSE ClauseItems(clauses[1], k)
         \o ExpectedItems(Tail(clauses),
                          k + OwnDraws(clauses[1]) + NestedDraws(clauses[1], k))

RECURSIVE DrawsOfAll(_, _)
DrawsOfAll(clauses, k) ==
  IF clauses = <<>> THEN k
  ELSE DrawsOfAll(Tail(clauses), k + OwnDraws(clauses[1]) + NestedDraws(clauses[1], k))

RECURSIVE SameValue(_, _)
SameValue(a, b) ==
  /\ a.tag = b.tag
  /\ IF a.tag = "int" THEN a.val = b.val
     ELSE /\ Len(a.val) = Len(b.val)
          /\ \A i \in 1..Len(a.val) : SameValue(a.val[i], b.val[i])

Structured == input.family \in {"body", "test", "junk", "clause", "multi"}

Returned == Structured /\ Len(rolled) >= 1 /\ First.err = ""

(***************************************************************************)
(* C5, as claimed: roll returns a bare integer exactly when the expression *)
(* has exactly one clause and that clause produced a lone integer; for     *)
(* two or more clauses, or a clause whose result is a sequence, it returns *)
(* a sequence.                                                             *)
(***************************************************************************)
LoneInteger(c) ==
  IF c.damage.present THEN NestedExpected(c, 0).tag = "int"
  ELSE c.op # "" \/ Reps(c) = 1

C5_AsClaimed ==
  Returned =>
    (First.ret.tag = "int" <=> (Len(input.clauses) = 1 /\ LoneInteger(OneClause)))

(***************************************************************************)
(* C5, amended: whenever roll returns, it returns a bare integer exactly   *)
(* when its clauses together added exactly one item to the result list and *)
(* that item is an integer (a clause without suffix adds one item per      *)
(* repetition, none for a repeat count of 0; a clause with a comparison or *)
(* damage suffix adds one item); otherwise it returns a sequence.          *)
(***************************************************************************)
C5_Unwrapping ==
  Returned =>
    LET items == ExpectedItems(input.clauses, 0) IN
      /\ First.ret.tag = "int" <=> (Len(items) = 1 /\ items[1].tag = "int")
      /\ First.ret.tag = "list" <=> (Len(items) # 1 \/ items[1].tag = "list")

\* '0xd2; 1-d2': two clauses, and a bare integer is returned
C5_Witness ==
  /\ input.family = "multi"
  /\ input.clauses = <<Clause(0, <<Dice(0, "", -1, 2)>>, "", 0, NoDamage),
                       Plain(<<Literal(0, 1), Dice(-1, "", -1, 2)>>)>>
  /\ Len(rolled) >= 1
  /\ First.err = ""
  /\ First.ret.tag = "int"

(***************************************************************************)
(* C6, as claimed: a sequence returned for a multi-clause expression has   *)
(* exactly one element per clause, in clause order, and a clause whose own *)
(* result is a sequence (a repeat count above 1 with no suffix, or a       *)
(* damage evaluation that returned a sequence) is one nested sequence      *)
(* element, not flattened.                                                 *)
(***************************************************************************)
C6_AsClaimed ==
  (Returned /\ input.family = "multi" /\ First.ret.tag = "list") =>
    /\ Len(First.ret.val) = Len(input.clauses)
    /\ \A i \in 1..Len(input.clauses) :
         (IsPlain([input.clauses[i] EXCEPT !.times = -1]) /\ input.clauses[i].times > 1)
           => First.ret.val[i].tag = "list"

(***************************************************************************)
(* C6, amended: a sequence returned for a multi-clause expression is the   *)
(* concatenation, in clause order, of what each clause adds: a clause      *)
(* without suffix adds its repetition totals as separate integers          *)
(* (flattened, none for a repeat count of 0), a clause with a comparison   *)
(* and no damage adds one integer, and a clause with a damage suffix adds  *)
(* one element, the nested result, a nested sequence when that is one;     *)
(* when the clauses add exactly one element in all, that element itself is *)
(* what roll returns.                                                      *)
(***************************************************************************)
C6_ItemsInClauseOrder ==
  (Returned /\ input.family = "multi" /\ First.ret.tag = "list") =>
    SameValue(First.ret, Unwrapped(ExpectedItems(input.clauses, 0)))

\* '2xd2; 2x2>1-->x1' with the draws 1 and 2 is [1, 2, [1, 1]]
C6_Witness ==
  /\ input.family = "multi"
  /\ input.clauses = <<Clause(2, <<Dice(0, "", -1, 2)>>, "", 0, NoDamage),
                       Clause(2, <<Literal(0, 2)>>, ">", 1,
                              DamageOf(TRUE, <<Literal(0, 1)>>))>>
  /\ Len(rolled) >= 1
  /\ First.err = ""
  /\ SameValue(First.ret,
               ListV(<<IntV(1), IntV(2), ListV(<<IntV(1), IntV(1)>>)>>))

RECURSIVE RollsIn(_)
RollsIn(lines) ==
  IF lines = <<>> THEN 0 ELSE Len(lines[1].rolls) + RollsIn(Tail(lines))

C8_DiceInRange ==
  LET lines == TermLines(out) IN
    /\ \A i \in 1..Len(lines) :
         (lines[i].dice >= 1 /\ lines[i].sides >= 1) =>
           /\ Len(lines[i].rolls) = lines[i].dice
           /\ \A j \in 1..Len(lines[i].rolls) : lines[i].rolls[j] \in 1..lines[i].sides
           /\ lines[i].func = "sum" =>
                /\ lines[i].value = Added(lines[i].rolls)
                /\ lines[i].value \in lines[i].dice..(lines[i].dice * lines[i].sides)
    /\ pos = RollsIn(lines)
    /\ (input.family \in {"body", "test"} /\ Len(rolled) >= 1) =>
         LET first == TermLines(First.out)
             terms == DiceTerms(OneClause.terms)
         IN /\ Len(first) = Len(terms)
            /\ \A i \in 1..Len(terms) :
                 /\ first[i].dice = TermDraws(terms[i])
                 /\ first[i].sides = terms[i].sides
                 /\ terms[i].prefix = "" => first[i].func = "sum"
            /\ First.pos = BodyDraws(OneClause.terms)

\* '2d12+10' drew the two values 2 and 2
C8_Witness ==
  /\ input.family = "test"
  /\ OneClause.terms = <<Dice(0, "", 2, 12), Literal(1, 10)>>
  /\ Len(rolled) >= 1
  /\ TermLines(First.out)[1].rolls = <<2, 2>>
  /\ TermLines(First.out)[1].value = 4
  /\ First.pos = 2

(***************************************************************************)
(* C9: unrecognised tokens put between the valid tokens of a body change   *)
(* neither the value roll returns nor the draws the valid tokens consume;  *)
(* a clause all of whose tokens are unrecognised evaluates to 0.           *)
(***************************************************************************)
RollsOf(lines) == [i \in 1..Len(TermLines(lines)) |-> TermLines(lines)[i].rolls]

C9_DroppedTokens ==
  /\ (phase = "done" /\ call.variant = "junk") =>
       /\ rolled[2].err = rolled[1].err
       /\ SameValue(rolled[2].ret, rolled[1].ret)
       /\ rolled[2].pos = rolled[1].pos
       /\ RollsOf(rolled[2].out) = RollsOf(rolled[1].out)
  /\ (input.family = "junk" /\ Len(rolled) >= 1) =>
       /\ First.err = ""
       /\ IsInt(First.ret, 0)
       /\ First.pos = 0

\* '2d2+d2' and '2d2+f2d2+d2-adv' both rolled 1, 2 and 2 and returned 5
C9_Witness ==
  /\ phase = "done"
  /\ call.variant = "junk"
  /\ OneClause.terms = <<Dice(0, "", 2, 2), Dice(1, "", -1, 2)>>
  /\ call.text = <<"2", "d", "2", "+", "f", "2", "d", "2", "+", "d", "2", "-", "a", "d", "v">>
  /\ RollsOf(rolled[2].out) = <<<<1, 2>>, <<2>>>>
  /\ IsInt(rolled[2].ret, 5)

(***************************************************************************)
(* C10: roll never raises for malformed input: for every text without a    *)
(* damage suffix, over digits, letters, signs, semicolons, whitespace and  *)
(* < > = !, roll returns a value.                                          *)
(***************************************************************************)
HasArrow(t) == \E i \in 1..(Len(t) - 2) : SubSeq(t, i, i + 2) = <<"-", "-", ">">>

C10_NeverRaises ==
  (input.family = "free" /\ ~HasArrow(text) /\ Len(rolled) >= 1) => First.err = ""

(***************************************************************************)
(* C11: a clause 'Nx body op T --> rest' yields what roll returns on the   *)
(* count K of passing repetitions written in decimal and followed by the   *)
(* text after the arrow ('KxD' for rest = 'xD': K rolls of D), and the     *)
(* nested evaluation draws after the clause's own N rolls and before the   *)
(* draws of any later clause.                                              *)
(***************************************************************************)
HasDamage(c) == c.damage.present /\ c.op # ""

C11_DamageNested ==
  /\ (input.family = "clause" /\ HasDamage(OneClause) /\ Len(rolled) >= 1) =>
       /\ First.err = ""
       /\ SameValue(First.ret, NestedExpected(OneClause, 0))
       /\ First.pos = OwnDraws(OneClause) + NestedDraws(OneClause, 0)
  /\ (/\ input.family = "multi"
      /\ \E i \in 1..Len(input.clauses) : HasDamage(input.clauses[i])
      /\ Len(rolled) >= 1) =>
       /\ First.err = ""
       /\ SameValue(First.ret, Unwrapped(ExpectedItems(input.clauses, 0)))
       /\ First.pos = DrawsOfAll(input.clauses, 0)

\* '1xd2>1-->xd2; 1-d2' drew 2 for the clause, 1 for the nested '1xd2' and 2
\* for the second clause
C11_Witness ==
  /\ input.family = "multi"
  /\ input.clauses = <<Clause(1, <<Dice(0, "", -1, 2)>>, ">", 1,
                              DamageOf(TRUE, <<Dice(0, "", -1, 2)>>)),
                       Plain(<<Literal(0, 1), Dice(-1, "", -1, 2)>>)>>
  /\ Len(rolled) >= 1
  /\ First.err = ""
  /\ tape = <<1, 0, 1>>
  /\ SameValue(First.ret, ListV(<<IntV(1), IntV(-1)>>))
  /\ First.pos = 3

(***************************************************************************)
(* C12: a clause 'Nx body' without suffix performs exactly N basic rolls   *)
(* of the body, in order, and yields their N totals in repetition order; a *)
(* clause without repeat prefix performs exactly one, so a single clause   *)
(* without repetition returns its lone total and a single clause with a    *)
(* repeat count of 2 or more returns the sequence of its totals.           *)
(***************************************************************************)
RepetitionLines(lines) == SelectSeq(lines, LAMBDA l : l.kind = "repetition")

C12_Repetitions ==
  (/\ input.family = "clause"
   /\ OneClause.op = "" /\ ~OneClause.damage.present
   /\ Len(rolled) >= 1) =>
    LET c == OneClause
        totals == RepTotals(c.terms, 0, Reps(c))
    IN /\ First.err = ""
       /\ First.pos = Reps(c) * BodyDraws(c.terms)
       /\ Len(TermLines(First.out)) = Reps(c) * Len(DiceTerms(c.terms))
       /\ (phase = "done" /\ call.variant = "main") =>
            /\ Len(RepetitionLines(First.out)) = Reps(c)
            /\ \A i \in 1..Reps(c) :
                 RepetitionLines(First.out)[i].value = totals[i].val
       /\ c.times < 0 => IsInt(First.ret, totals[1].val)
       /\ c.times >= 2 => /\ First.ret.tag = "list"
                          /\ Len(First.ret.val) = c.times
       /\ SameValue(First.ret, Unwrapped(totals))

\* '2xd2' rolled 2 and then 1 and returned [2, 1]
C12_Witness ==
  /\ input.family = "clause"
  /\ OneClause = Clause(2, <<Dice(0, "", -1, 2)>>, "", 1, NoDamage)
  /\ phase = "done" /\ call.variant = "main"
  /\ tape = <<1, 0>>
  /\ Len(RepetitionLines(First.out)) = 2
  /\ SameValue(First.ret, ListV(<<IntV(2), IntV(1)>>))

(***************************************************************************)
(* C13: roll strips all whitespace before parsing: roll on a text and roll *)
(* on the text without its spaces, tabs and newlines end the same way      *)
(* under the same draws.                                                   *)
(***************************************************************************)
C13_WhitespaceStripped ==
  (phase = "done" /\ call.variant = "stripped") =>
    /\ rolled[2].err = rolled[1].err
    /\ SameValue(rolled[2].ret, rolled[1].ret)
    /\ rolled[2].pos = rolled[1].pos

(***************************************************************************)
(* C14: the trace is toggled independently of the returned value: a call   *)
(* roll(text, noprint=True) that returns has printed nothing at all (no    *)
(* term, repetition or summary line, also during a nested damage           *)
(* evaluation) and returns what roll(text, noprint=False) returns under    *)
(* the same draws.                                                         *)
(***************************************************************************)
C14_TraceToggled ==
  /\ (Len(rolled) >= 1 /\ call.variant # "main" /\ First.err = "") =>
       First.out = <<>>
  /\ (phase = "done" /\ call.variant = "printing") =>
       /\ rolled[2].err = rolled[1].err
       /\ SameValue(rolled[2].ret, rolled[1].ret)
       /\ rolled[2].pos = rolled[1].pos

(***************************************************************************)
(* C15, as claimed: the clause parser gives a clause a damage suffix only  *)
(* when it gives it a comparison suffix too: in every matched clause a     *)
(* non-empty damage group comes with a non-empty comparison group.         *)
(***************************************************************************)
Matched(f) == f.pc # "for" \/ f.clause # <<>>

FirstArrow(t) ==
  CHOOSE i \in 1..(Len(t) - 2) :
    /\ SubSeq(t, i, i + 2) = Arrow
    /\ \A j \in 1..(i - 1) : SubSeq(t, j, j + 2) # Arrow

C16_PositiveDice ==
  /\ \A i \in 1..Len(out) :
       out[i].kind = "term" => (out[i].dice >= 1 /\ out[i].sides >= 1)
  /\ \A i \in 1..Len(rolled) : rolled[i].err # "ValueError"

(***************************************************************************)
(* C17, as claimed: a dice term whose prefix is not one of the known       *)
(* keywords defaults to the sum: 'f2d2' rolls two dice and is worth their  *)
(* sum.                                                                    *)
(***************************************************************************)
UnknownPrefixOnly ==
  /\ input.family = "junk"
  /\ OneClause.terms = <<Junk(0, <<"f", "2", "d", "2">>)>>
  /\ Len(rolled) >= 1

C17_AsClaimed ==
  UnknownPrefixOnly =>
    /\ First.err = ""
    /\ First.pos = 2
    /\ IsInt(First.ret, FacesSum(0, 2, 2))

(***************************************************************************)
(* C17, amended: a dice term without prefix defaults to the sum; a token   *)
(* whose prefix is not one of the known keywords ('f2d2') is no dice term: *)
(* it is dropped, rolls no dice and contributes 0.                         *)
(***************************************************************************)
C17_UnknownPrefixDropped ==
  /\ UnknownPrefixOnly =>
       /\ First.err = ""
       /\ First.pos = 0
       /\ TermLines(First.out) = <<>>
       /\ IsInt(First.ret, 0)
  /\ (/\ input.family = "body"
      /\ Len(OneClause.terms) = 1 /\ OneClause.terms[1].prefix = ""
      /\ OneClause.terms[1].kind = "dice"
      /\ Len(rolled) >= 1) =>
       /\ First.err = ""
       /\ Len(TermLines(First.out)) = 1
       /\ TermLines(First.out)[1].func = "sum"
       /\ IsInt(First.ret,
                SignFactor(OneClause.terms[1]) * Added(TermLines(First.out)[1].rolls))

\* 'f2d2' returned 0 without a draw
C17_Witness ==
  /\ UnknownPrefixOnly
  /\ call.text = <<"f", "2", "d", "2">>
  /\ First.pos = 0
  /\ IsInt(First.ret, 0)

(***************************************************************************)
(* i3auto-assign-workspace.py.  A workspace name and an assignment are     *)
(* texts, sequences of one-character strings; an output's name is a        *)
(* string.                                                                 *)
(***************************************************************************)
left == <<"l", "e", "f", "t">>

middle == <<"m", "i", "d", "d", "l", "e">>

right == <<"r", "i", "g", "h", "t">>

down == <<"d", "o", "w", "n">>

Positions == {left, middle, right, down}

\* assignment.rfind('='): the last index of '=', counted from 1; 0 for none
RECURSIVE rfind(_, _)
rfind(s, i) == IF i = 0 THEN 0 ELSE IF s[i] = "=" THEN i ELSE rfind(s, i - 1)

\* a slip: assignment.find('='), the first '='
RECURSIVE find_first(_, _)
find_first(s, i) ==
  IF i > Len(s) THEN 0 ELSE IF s[i] = "=" THEN i ELSE find_first(s, i + 1)

parse_assignment_at_first(assignment) ==
  LET last_eq_index == find_first(assignment, 1)
      target == Take(assignment, last_eq_index - 1)
      position == Drop(assignment, last_eq_index)
  IN IF last_eq_index = 0 THEN [exit |-> 1, target |-> <<>>, position |-> <<>>]
     ELSE IF position \notin Positions
       THEN [exit |-> 1, target |-> <<>>, position |-> <<>>]
     ELSE [exit |-> 0, target |-> target, position |-> position]

\* parse_assignment (909-924): (target, position), or sys.exit(1)
parse_assignment(assignment) ==
  LET last_eq_index == rfind(assignment, Len(assignment))
      target == Take(assignment, last_eq_index - 1)
      position == Drop(assignment, last_eq_index)
  IN IF last_eq_index = 0 THEN [exit |-> 1, target |-> <<>>, position |-> <<>>]
     ELSE IF position \notin Positions
       THEN [exit |-> 1, target |-> <<>>, position |-> <<>>]
     ELSE [exit |-> 0, target |-> target, position |-> position]

\* get_outputs_with_positions (20-30): the active outputs, in i3's order
get_outputs_with_positions == SelectSeq(outputs, LAMBDA o : o.active)

NoOutput == [name |-> "", active |-> FALSE, primary |-> FALSE,
             rect |-> [x |-> 0, y |-> 0, width |-> 0, height |-> 0]]

\* the first element of a list that satisfies Test; NoOutput for none
FirstThat(list, Test(_)) ==
  LET hits == {i \in 1..Len(list) : Test(list[i])}
  IN IF hits = {} THEN NoOutput
     ELSE list[CHOOSE i \in hits : \A j \in hits : i <= j]

\* get_primary_monitor (32-45): the first active output marked primary, else
\* the first active output, else None
get_primary_monitor ==
  LET active == get_outputs_with_positions
      marked == SelectSeq(active, LAMBDA o : o.primary)
  IN IF marked # <<>> THEN marked[1]
     ELSE IF active # <<>> THEN active[1]
     ELSE NoOutput

\* max(list, key=x) and min(list, key=...): the first element with the
\* greatest, or the least, key
MaxByX(list) ==
  FirstThat(list, LAMBDA m : \A j \in 1..Len(list) : list[j].rect.x <= m.rect.x)

MinByX(list) ==
  FirstThat(list, LAMBDA m : \A j \in 1..Len(list) : list[j].rect.x >= m.rect.x)

MinByY(list) ==
  FirstThat(list, LAMBDA m : \A j \in 1..Len(list) : list[j].rect.y >= m.rect.y)

Abs(n) == IF n < 0 THEN -n ELSE n

\* a slip: the leftmost of the monitors left of the primary
get_target_monitor_leftmost(position) ==
  LET primary == get_primary_monitor
      monitors == get_outputs_with_positions
      left_monitors == SelectSeq(monitors, LAMBDA m : m.rect.x < primary.rect.x)
      right_monitors ==
        SelectSeq(monitors, LAMBDA m :
          /\ m.name # primary.name
          /\ m.rect.x >= primary.rect.x + primary.rect.width
          /\ 2 * Abs(m.rect.y - primary.rect.y) < primary.rect.height)
      down_monitors ==
        SelectSeq(monitors, LAMBDA m :
          /\ m.name # primary.name
          /\ 2 * m.rect.y >= 2 * primary.rect.y + primary.rect.height)
  IN IF primary = NoOutput THEN [exit |-> 1, name |-> ""]
     ELSE IF position = middle THEN [exit |-> 0, name |-> primary.name]
     ELSE IF position = left
       THEN [exit |-> 0,
             name |-> IF left_monitors # <<>> THEN MinByX(left_monitors).name
                      ELSE primary.name]
     ELSE IF position = right
       THEN [exit |-> 0,
             name |-> IF right_monitors # <<>> THEN MinByX(right_monitors).name
                      ELSE primary.name]
     ELSE IF position = down
       THEN [exit |-> 0,
             name |-> IF down_monitors # <<>> THEN MinByY(down_monitors).name
                      ELSE primary.name]
     ELSE [exit |-> 1, name |-> ""]

\* get_target_monitor (64-143): the name of the output for a position, or
\* sys.exit(1).  The comparisons with primary_height * 0.5 are doubled.
get_target_monitor(position) ==
  LET primary == get_primary_monitor
      monitors == get_outputs_with_positions
      left_monitors == SelectSeq(monitors, LAMBDA m : m.rect.x < primary.rect.x)
      right_monitors ==
        SelectSeq(monitors, LAMBDA m :
          /\ m.name # primary.name
          /\ m.rect.x >= primary.rect.x + primary.rect.width
          /\ 2 * Abs(m.rect.y - primary.rect.y) < primary.rect.height)
      down_monitors ==
        SelectSeq(monitors, LAMBDA m :
          /\ m.name # primary.name
          /\ 2 * m.rect.y >= 2 * primary.rect.y + primary.rect.height)
  IN IF primary = NoOutput THEN [exit |-> 1, name |-> ""]
     ELSE IF position = middle THEN [exit |-> 0, name |-> primary.name]
     ELSE IF position = left
       THEN [exit |-> 0,
             name |-> IF left_monitors # <<>> THEN MaxByX(left_monitors).name
                      ELSE primary.name]
     ELSE IF position = right
       THEN [exit |-> 0,
             name |-> IF right_monitors # <<>> THEN MinByX(right_monitors).name
                      ELSE primary.name]
     ELSE IF position = down
       THEN [exit |-> 0,
             name |-> IF down_monitors # <<>> THEN MinByY(down_monitors).name
                      ELSE primary.name]
     ELSE [exit |-> 1, name |-> ""]

(***************************************************************************)
(* The dictionaries of clear_illegal_workspaces keep the order in which    *)
(* their keys were first set: a list of [key, value].                      *)
(***************************************************************************)
Keys(dict) == [i \in 1..Len(dict) |-> dict[i].key]

HasKey(dict, k) == \E i \in 1..Len(dict) : dict[i].key = k

Get(dict, k, default) ==
  IF HasKey(dict, k)
    THEN dict[CHOOSE i \in 1..Len(dict) : dict[i].key = k].value
    ELSE default

Set(dict, k, v) ==
  IF HasKey(dict, k)
    THEN [i \in 1..Len(dict) |->
            IF dict[i].key = k THEN [key |-> k, value |-> v] ELSE dict[i]]
    ELSE Append(dict, [key |-> k, value |-> v])

\* get_all_workspaces (679-687): (name, output) of every workspace
get_all_workspaces == workspaces

\* get_containers_in_workspace (689-716): the windows of a workspace, in the
\* order of the tree
get_containers_in_workspace(workspace_name) ==
  LET ids == {c \in DOMAIN tree : tree[c] = workspace_name}
      Pick[S \in SUBSET ids] ==
        IF S = {} THEN <<>>
        ELSE LET c == CHOOSE x \in S : \A y \in S : x <= y
             IN <<c>> \o Pick[S \ {c}]
  IN Pick[ids]

\* the script has ended: status 0 on return, 1 on sys.exit(1)
Ended(status) == [proc EXCEPT !.pc = "ended", !.status = status]

\* __main__ (955-958) and clear_illegal_workspaces (731-735)
clear_illegal_workspaces ==
  /\ proc.pc = "main"
  /\ command = "clear-illegal-workspaces"
  /\ proc' = [proc EXCEPT !.pc = "legal", !.i = 1]
  /\ UNCHANGED <<command, legal_assignments, outputs, workspaces, tree, started>>
  /\ UNCHANGED <<args, nodes, focus, issued>>
  /\ UNCHANGED called
  /\ UNCHANGED <<rollvars, eachvars>>

\* 737-745: one legal assignment is parsed and put in the two dictionaries
ClearLegal ==
  /\ proc.pc = "legal"
  /\ proc.i <= Len(legal_assignments)
  /\ LET parsed == parse_assignment(legal_assignments[proc.i])
         monitor == get_target_monitor(parsed.position)
     IN proc' =
          IF parsed.exit # 0 THEN Ended(parsed.exit)
          ELSE IF monitor.exit # 0
            THEN [Ended(monitor.exit) EXCEPT
                    !.workspace_name = parsed.target,
                    !.position = parsed.position,
                    !.legal_workspaces =
                       Set(proc.legal_workspaces, parsed.target, parsed.position)]
          ELSE [proc EXCEPT
                  !.i = proc.i + 1,
                  !.workspace_name = parsed.target,
                  !.position = parsed.position,
                  !.monitor = monitor.name,
                  !.legal_workspaces =
                     Set(proc.legal_workspaces, parsed.target, parsed.position),
                  !.legal_by_monitor =
                     Set(proc.legal_by_monitor, monitor.name,
                         Append(Get(proc.legal_by_monitor, monitor.name, <<>>),
                                parsed.target))]
  /\ UNCHANGED <<command, legal_assignments, outputs, workspaces, tree, started>>
  /\ UNCHANGED <<args, nodes, focus, issued>>
  /\ UNCHANGED called
  /\ UNCHANGED <<rollvars, eachvars>>

\* 747-758: the workspaces that are not legal; return when there is none
ClearFind ==
  /\ proc.pc = "legal"
  /\ proc.i > Len(legal_assignments)
  /\ LET illegal_workspaces ==
           SelectSeq(get_all_workspaces,
                     LAMBDA w : ~HasKey(proc.legal_workspaces, w.name))
     IN proc' = IF illegal_workspaces = <<>> THEN Ended(0)
                ELSE [proc EXCEPT !.pc = "for",
                                  !.illegal_workspaces = illegal_workspaces]
  /\ UNCHANGED <<command, legal_assignments, outputs, workspaces, tree, started>>
  /\ UNCHANGED <<args, nodes, focus, issued>>
  /\ UNCHANGED called
  /\ UNCHANGED <<rollvars, eachvars>>

\* a slip: target_workspaces[-1], the last legal workspace of the monitor
choose_target_last(target_workspaces, all_legal) ==
  IF target_workspaces = <<>> THEN all_legal[1]
  ELSE target_workspaces[Len(target_workspaces)]

\* 771-785: the first legal workspace of the monitor, else the first of all
choose_target(target_workspaces, all_legal) ==
  IF target_workspaces = <<>> THEN all_legal[1] ELSE target_workspaces[1]

\* 761-785: the next illegal workspace: skipped when empty, else its windows
\* get the first legal workspace of its monitor, or the first legal
\* workspace of all when its monitor has none
ClearProcess ==
  /\ proc.pc = "for"
  /\ proc.illegal_workspaces # <<>>
  /\ LET illegal_workspace == proc.illegal_workspaces[1].name
         illegal_monitor == proc.illegal_workspaces[1].output
         containers == get_containers_in_workspace(illegal_workspace)
         target_workspaces == Get(proc.legal_by_monitor, illegal_monitor, <<>>)
         all_legal == Keys(proc.legal_workspaces)
     IN proc' =
          IF containers = <<>> \/ (target_workspaces = <<>> /\ all_legal = <<>>)
            THEN [proc EXCEPT !.illegal_workspaces = Tail(proc.illegal_workspaces)]
            ELSE [proc EXCEPT
                    !.pc = "move",
                    !.containers = containers,
                    !.target_workspace = choose_target(target_workspaces, all_legal),
                    !.success_count = 0]
  /\ UNCHANGED <<command, legal_assignments, outputs, workspaces, tree, started>>
  /\ UNCHANGED <<args, nodes, focus, issued>>
  /\ UNCHANGED called
  /\ UNCHANGED <<rollvars, eachvars>>

\* 718-729, 788-790: i3 moves one window to the target workspace, which it
\* opens on one of its outputs when there is none of the name, or reports an
\* error and the window stays
\* a command that was run, with its return code
Issued(cmd, argument, returncode) ==
  [command |-> cmd, argument |-> argument, returncode |-> returncode]

ClearMove ==
  /\ proc.pc = "move"
  /\ proc.containers # <<>>
  /\ \E moved \in BOOLEAN :
       /\ issued' = Append(issued, Issued("move container to workspace",
                                          <<proc.containers[1], proc.target_workspace>>,
                                          IF moved THEN 0 ELSE 1))
       /\ IF moved
           THEN /\ tree' = [tree EXCEPT ![proc.containers[1]] = proc.target_workspace]
                /\ IF \E i \in 1..Len(workspaces) :
                        workspaces[i].name = proc.target_workspace
                     THEN workspaces' = workspaces
                     ELSE \E o \in 1..Len(get_outputs_with_positions) :
                            workspaces' =
                              Append(workspaces,
                                     [name |-> proc.target_workspace,
                                      output |-> get_outputs_with_positions[o].name])
                /\ proc' = [proc EXCEPT !.containers = Tail(proc.containers),
                                        !.success_count = proc.success_count + 1]
           ELSE /\ proc' = [proc EXCEPT !.containers = Tail(proc.containers),
                                        !.failed = TRUE]
                /\ UNCHANGED <<tree, workspaces>>
  /\ UNCHANGED <<command, legal_assignments, outputs, started>>
  /\ UNCHANGED <<args, nodes, focus>>
  /\ UNCHANGED called
  /\ UNCHANGED <<rollvars, eachvars>>

\* 792: the windows of the workspace are done
ClearMoved ==
  /\ proc.pc = "move"
  /\ proc.containers = <<>>
  /\ proc' = [proc EXCEPT !.pc = "for",
                          !.illegal_workspaces = Tail(proc.illegal_workspaces)]
  /\ UNCHANGED <<command, legal_assignments, outputs, workspaces, tree, started>>
  /\ UNCHANGED <<args, nodes, focus, issued>>
  /\ UNCHANGED called
  /\ UNCHANGED <<rollvars, eachvars>>

\* the loop over the illegal workspaces is over
ClearReturn ==
  /\ proc.pc = "for"
  /\ proc.illegal_workspaces = <<>>
  /\ proc' = Ended(0)
  /\ UNCHANGED <<command, legal_assignments, outputs, workspaces, tree, started>>
  /\ UNCHANGED <<args, nodes, focus, issued>>
  /\ UNCHANGED called
  /\ UNCHANGED <<rollvars, eachvars>>

(***************************************************************************)
(* The other subcommands.  Every command the script runs is an action of   *)
(* its own: the command is added to issued with the return code i3-msg     *)
(* gives, any of ReturnCodes, and a command that succeeded has changed the *)
(* workspaces, the tree or the focus.                                      *)
(***************************************************************************)
ReturnCodes == {0, 1}

\* ws['num']: the number the name starts with, -1 for a name without one
num(name) ==
  LET n == RunLen(name, 1, Digits) IN IF n = 0 THEN -1 ELSE int(Take(name, n))

NoWorkspace == [name |-> <<>>, output |-> "None"]

\* a slip: the workspace looked up by its name only
get_workspace_info_by_name(workspace_name) ==
  LET found == {i \in 1..Len(workspaces) : workspaces[i].name = workspace_name}
  IN IF found = {} THEN NoWorkspace
     ELSE workspaces[CHOOSE i \in found : \A j \in found : i <= j]

\* get_workspace_info (47-58): the first workspace with the name or the number
get_workspace_info(workspace_name) ==
  LET found == {i \in 1..Len(workspaces) :
                  \/ workspaces[i].name = workspace_name
                  \/ str(num(workspaces[i].name)) = workspace_name}
  IN IF found = {} THEN NoWorkspace
     ELSE workspaces[CHOOSE i \in found : \A j \in found : i <= j]

\* a slip: a workspace is there only by its name
workspace_exists_by_name(workspace_name) ==
  \E i \in 1..Len(workspaces) : workspaces[i].name = workspace_name

\* workspace_exists (60-62)
workspace_exists(workspace_name) == get_workspace_info(workspace_name) # NoWorkspace

\* get_current_workspace (445-456): the name of the focused workspace
get_current_workspace == focus.workspace

\* get_current_monitor (432-443): the output of the focused workspace
get_current_monitor ==
  LET found == {i \in 1..Len(workspaces) : workspaces[i].name = focus.workspace}
  IN IF found = {} THEN "None"
     ELSE workspaces[CHOOSE i \in found : \A j \in found : i <= j].output

\* i3, on 'workspace <name>': a workspace that is not there is made on the
\* focused output
Switched(name) ==
  IF \E i \in 1..Len(workspaces) : workspaces[i].name = name THEN workspaces
  ELSE Append(workspaces, [name |-> name, output |-> get_current_monitor])

\* i3: the focus in a workspace is on its first window, if it has one
FocusIn(name) ==
  LET ids == {c \in DOMAIN tree : tree[c] = name}
  IN [workspace |-> name,
      window |-> IF ids = {} THEN 0 ELSE CHOOSE c \in ids : \A other \in ids : c <= other]

\* i3, on 'focus output <name>': the focus goes to a workspace of the output
FocusOn(output) ==
  LET found == {i \in 1..Len(workspaces) : workspaces[i].output = output}
  IN IF found = {} THEN focus
     ELSE FocusIn(workspaces[CHOOSE i \in found : \A j \in found : i <= j].name)

\* i3, on 'move workspace to output <name>': the focused workspace goes there
Moved(output) ==
  [i \in 1..Len(workspaces) |->
     IF workspaces[i].name = focus.workspace
       THEN [workspaces[i] EXCEPT !.output = output] ELSE workspaces[i]]

\* open_workspace (223-225): the branch taken, for the caller it returns to
open_workspace(workspace_name, position, caller) ==
  [proc EXCEPT !.workspace_name = workspace_name,
               !.position = position,
               !.caller = caller,
               !.pc = IF workspace_exists(workspace_name) THEN "focus workspace"
                      ELSE "focus monitor"]

\* open_workspace has returned: the script is over, or the program is launched
Opened == IF proc.caller = "open-ws" THEN Ended(0) ELSE [proc EXCEPT !.pc = "launch"]

\* __main__ (935-939): open-ws
open_ws ==
  /\ proc.pc = "main"
  /\ command = "open-ws"
  /\ LET parsed == parse_assignment(args.assignments[1]) IN
       proc' = IF parsed.exit # 0 THEN Ended(parsed.exit)
               ELSE open_workspace(parsed.target, parsed.position, "open-ws")
  /\ UNCHANGED <<command, legal_assignments, outputs, workspaces, tree, started>>
  /\ UNCHANGED <<args, nodes, focus, issued>>
  /\ UNCHANGED called
  /\ UNCHANGED <<rollvars, eachvars>>

\* open_workspace (226-237): the workspace exists and is focused
OpenExisting ==
  /\ proc.pc = "focus workspace"
  /\ \E returncode \in ReturnCodes :
       /\ issued' = Append(issued, Issued("workspace", proc.workspace_name, returncode))
       /\ IF returncode # 0
            THEN /\ proc' = Ended(1)
                 /\ UNCHANGED <<workspaces, focus>>
            ELSE /\ proc' = Opened
                 /\ workspaces' = Switched(proc.workspace_name)
                 /\ focus' = FocusIn(proc.workspace_name)
  /\ UNCHANGED <<command, legal_assignments, outputs, tree, started, args, nodes>>
  /\ UNCHANGED called
  /\ UNCHANGED <<rollvars, eachvars>>

\* open_workspace (239-245) and focus_monitor (206-221)
OpenFocusMonitor ==
  /\ proc.pc = "focus monitor"
  /\ LET target_monitor == get_target_monitor(proc.position) IN
       IF target_monitor.exit # 0
         THEN /\ proc' = Ended(target_monitor.exit)
              /\ UNCHANGED <<focus, issued>>
         ELSE \E returncode \in ReturnCodes :
                /\ issued' = Append(issued,
                                    Issued("focus output", target_monitor.name, returncode))
                /\ IF returncode # 0
                     THEN /\ proc' = Ended(1)
                          /\ UNCHANGED focus
                     ELSE /\ proc' = [proc EXCEPT !.pc = "create workspace",
                                                  !.monitor = target_monitor.name]
                          /\ focus' = FocusOn(target_monitor.name)
  /\ UNCHANGED <<command, legal_assignments, outputs, workspaces, tree, started>>
  /\ UNCHANGED <<args, nodes>>
  /\ UNCHANGED called
  /\ UNCHANGED <<rollvars, eachvars>>

\* open_workspace (247-256): the workspace is made on the focused monitor
OpenCreate ==
  /\ proc.pc = "create workspace"
  /\ \E returncode \in ReturnCodes :
       /\ issued' = Append(issued, Issued("workspace", proc.workspace_name, returncode))
       /\ IF returncode # 0
            THEN /\ proc' = Ended(1)
                 /\ UNCHANGED <<workspaces, focus>>
            ELSE /\ proc' = Opened
                 /\ workspaces' = Switched(proc.workspace_name)
                 /\ focus' = FocusIn(proc.workspace_name)
  /\ UNCHANGED <<command, legal_assignments, outputs, tree, started, args, nodes>>
  /\ UNCHANGED called
  /\ UNCHANGED <<rollvars, eachvars>>

\* the next assignment of move-ws-to-monitor, or the end of the script
MoveNext ==
  IF proc.i = Len(args.assignments) THEN Ended(0) ELSE [proc EXCEPT !.pc = "next"]

\* __main__ (929-934) and move_to_monitor (145-154, 161, 188): the next
\* assignment is parsed, its monitor found and the commands to run chosen
move_ws_to_monitor ==
  /\ proc.pc \in {"main", "next"}
  /\ command = "move-ws-to-monitor"
  /\ LET parsed == parse_assignment(args.assignments[proc.i + 1])
         target_monitor == get_target_monitor(parsed.position)
         ws_info == get_workspace_info(parsed.target)
     IN IF parsed.exit # 0
          THEN proc' = Ended(parsed.exit) /\ UNCHANGED called
        ELSE IF target_monitor.exit # 0
          THEN proc' = Ended(target_monitor.exit) /\ UNCHANGED called
        ELSE
          /\ called' = [workspaces |-> workspaces, focus |-> focus,
                        issued |-> Len(issued)]
          /\ proc' =
               [proc EXCEPT
                  !.i = proc.i + 1,
                  !.workspace_name = parsed.target,
                  !.position = parsed.position,
                  !.monitor = target_monitor.name,
                  !.pc = IF args.type = "window" THEN "focus window"
                         ELSE IF ws_info # NoWorkspace
                                 /\ ws_info.output = target_monitor.name
                           THEN "switch only"
                         ELSE "switch"]
  /\ UNCHANGED <<command, legal_assignments, outputs, workspaces, tree, started>>
  /\ UNCHANGED <<args, nodes, focus, issued>>
  /\ UNCHANGED <<rollvars, eachvars>>

\* move_to_monitor (155-160): already on the monitor, only a switch
MoveSwitchOnly ==
  /\ proc.pc = "switch only"
  /\ \E returncode \in ReturnCodes :
       /\ issued' = Append(issued, Issued("workspace", proc.workspace_name, returncode))
       /\ IF returncode # 0
            THEN UNCHANGED <<workspaces, focus>>
            ELSE /\ workspaces' = Switched(proc.workspace_name)
                 /\ focus' = FocusIn(proc.workspace_name)
  /\ proc' = MoveNext
  /\ UNCHANGED <<command, legal_assignments, outputs, tree, started, args, nodes>>
  /\ UNCHANGED called
  /\ UNCHANGED <<rollvars, eachvars>>

\* move_to_monitor (162-168): the first switch
MoveSwitch ==
  /\ proc.pc = "switch"
  /\ \E returncode \in ReturnCodes :
       /\ issued' = Append(issued, Issued("workspace", proc.workspace_name, returncode))
       /\ IF returncode # 0
            THEN /\ proc' = Ended(1)
                 /\ UNCHANGED <<workspaces, focus>>
            ELSE /\ proc' = [proc EXCEPT !.pc = "move workspace"]
                 /\ workspaces' = Switched(proc.workspace_name)
                 /\ focus' = FocusIn(proc.workspace_name)
  /\ UNCHANGED <<command, legal_assignments, outputs, tree, started, args, nodes>>
  /\ UNCHANGED called
  /\ UNCHANGED <<rollvars, eachvars>>

\* move_to_monitor (170-176): the move to the target output
MoveWorkspace ==
  /\ proc.pc = "move workspace"
  /\ \E returncode \in ReturnCodes :
       /\ issued' = Append(issued,
                           Issued("move workspace to output", proc.monitor, returncode))
       /\ IF returncode # 0
            THEN /\ proc' = Ended(1)
                 /\ UNCHANGED workspaces
            ELSE /\ proc' = [proc EXCEPT !.pc = "switch again"]
                 /\ workspaces' = Moved(proc.monitor)
  /\ UNCHANGED <<command, legal_assignments, outputs, tree, started>>
  /\ UNCHANGED <<args, nodes, focus>>
  /\ UNCHANGED called
  /\ UNCHANGED <<rollvars, eachvars>>

\* move_to_monitor (178-180): the workspace is focused again
MoveSwitchAgain ==
  /\ proc.pc = "switch again"
  /\ \E returncode \in ReturnCodes :
       /\ issued' = Append(issued, Issued("workspace", proc.workspace_name, returncode))
       /\ IF returncode # 0
            THEN UNCHANGED <<workspaces, focus>>
            ELSE /\ workspaces' = Switched(proc.workspace_name)
                 /\ focus' = FocusIn(proc.workspace_name)
  /\ proc' = MoveNext
  /\ UNCHANGED <<command, legal_assignments, outputs, tree, started, args, nodes>>
  /\ UNCHANGED called
  /\ UNCHANGED <<rollvars, eachvars>>

\* i3, on '[title="<target>"] focus': the focus goes to a window of that title
Titled(target) ==
  LET ids == {c \in DOMAIN nodes : nodes[c].title = target}
  IN IF ids = {} THEN focus
     ELSE LET c == CHOOSE c \in ids : \A other \in ids : c <= other
          IN [workspace |-> tree[c], window |-> c]

\* move_to_monitor (189-194): --type window, the window is focused
MoveWindowFocus ==
  /\ proc.pc = "focus window"
  /\ \E returncode \in ReturnCodes :
       /\ issued' = Append(issued, Issued("focus title", proc.workspace_name, returncode))
       /\ IF returncode # 0
            THEN /\ proc' = Ended(1)
                 /\ UNCHANGED focus
            ELSE /\ proc' = [proc EXCEPT !.pc = "move window"]
                 /\ focus' = Titled(proc.workspace_name)
  /\ UNCHANGED <<command, legal_assignments, outputs, workspaces, tree, started>>
  /\ UNCHANGED <<args, nodes>>
  /\ UNCHANGED called
  /\ UNCHANGED <<rollvars, eachvars>>

\* move_to_monitor (196-201): --type window, the focused window is moved to
\* a workspace of the target output
MoveWindow ==
  /\ proc.pc = "move window"
  /\ \E returncode \in ReturnCodes :
       /\ issued' = Append(issued,
                           Issued("move window to output", proc.monitor, returncode))
       /\ IF returncode # 0
            THEN /\ proc' = Ended(1)
                 /\ UNCHANGED <<tree, focus>>
            ELSE /\ proc' = MoveNext
                 /\ LET to == FocusOn(proc.monitor).workspace IN
                      IF focus.window = 0
                        THEN UNCHANGED <<tree, focus>>
                        ELSE /\ tree' = [tree EXCEPT ![focus.window] = to]
                             /\ focus' = [focus EXCEPT !.workspace = to]
  /\ UNCHANGED <<command, legal_assignments, outputs, workspaces, started>>
  /\ UNCHANGED <<args, nodes>>
  /\ UNCHANGED called
  /\ UNCHANGED <<rollvars, eachvars>>

\* str.lower(), on the letters A to Z
UpperCase ==
  <<"A", "B", "C", "D", "E", "F", "G", "H", "I", "J", "K", "L", "M",
    "N", "O", "P", "Q", "R", "S", "T", "U", "V", "W", "X", "Y", "Z">>

LowerCase ==
  <<"a", "b", "c", "d", "e", "f", "g", "h", "i", "j", "k", "l", "m",
    "n", "o", "p", "q", "r", "s", "t", "u", "v", "w", "x", "y", "z">>

lower(s) ==
  [i \in 1..Len(s) |->
     IF \E k \in 1..26 : UpperCase[k] = s[i]
       THEN LowerCase[CHOOSE k \in 1..26 : UpperCase[k] = s[i]]
       ELSE s[i]]

\* sub in s
Contains(s, sub) ==
  \E i \in 0..(Len(s) - Len(sub)) : SubSeq(s, i + 1, i + Len(sub)) = sub

\* the output of a workspace of the tree
OutputOf(workspace_name) ==
  LET found == {i \in 1..Len(workspaces) : workspaces[i].name = workspace_name}
  IN IF found = {} THEN "None"
     ELSE workspaces[CHOOSE i \in found : \A j \in found : i <= j].output

\* the place of a window in the tree: its output, its workspace, its id
TreeKey(c) ==
  LET o == CHOOSE i \in 0..Len(outputs) :
             IF \E j \in 1..Len(outputs) : outputs[j].name = OutputOf(tree[c])
               THEN i > 0 /\ outputs[i].name = OutputOf(tree[c])
               ELSE i = 0
      w == CHOOSE i \in 0..Len(workspaces) :
             IF \E j \in 1..Len(workspaces) : workspaces[j].name = tree[c]
               THEN i > 0 /\ workspaces[i].name = tree[c]
                    /\ \A j \in 1..(i - 1) : workspaces[j].name # tree[c]
               ELSE i = 0
  IN (o * 10 + w) * 10 + c

\* the windows in the order in which the tree is searched (nodes, depth first)
tree_windows ==
  LET Pick[S \in SUBSET DOMAIN tree] ==
        IF S = {} THEN <<>>
        ELSE LET c == CHOOSE x \in S : \A y \in S : TreeKey(x) <= TreeKey(y)
             IN <<c>> \o Pick[S \ {c}]
  IN Pick[DOMAIN tree]

\* window_info (333-339) of a window
window_info(c) ==
  [id |-> c, class |-> lower(nodes[c].class), title |-> lower(nodes[c].title),
   instance |-> lower(nodes[c].instance), focused |-> focus.window = c]

\* prioritize_main_windows (368-393): the windows whose title has none of
\* the keywords, or else all of them
secondary_keywords ==
  {<<"d", "e", "b", "u", "g">>,
   <<"r", "u", "n">>,
   <<"c", "o", "n", "s", "o", "l", "e">>,
   <<"t", "e", "r", "m", "i", "n", "a", "l">>,
   <<"l", "o", "g">>,
   <<"o", "u", "t", "p", "u", "t">>,
   <<"t", "o", "o", "l">>,
   <<"t", "o", "o", "l", "b", "o", "x">>}

prioritize_main_windows(windows) ==
  LET main_windows ==
        SelectSeq(windows, LAMBDA w :
          ~\E keyword \in secondary_keywords : Contains(lower(w.title), keyword))
  IN IF main_windows # <<>> THEN main_windows ELSE windows

\* find_window_by_class_or_title (316-366): the matches by class or
\* instance, or else the matches by title
find_window_by_class_or_title(program_name) ==
  LET infos == [i \in 1..Len(tree_windows) |-> window_info(tree_windows[i])]
      program_lower == lower(program_name)
      windows_by_class ==
        SelectSeq(infos, LAMBDA w :
          Contains(w.class, program_lower) \/ Contains(w.instance, program_lower))
      windows_by_title ==
        SelectSeq(infos, LAMBDA w :
          /\ ~(Contains(w.class, program_lower) \/ Contains(w.instance, program_lower))
          /\ Contains(w.title, program_lower))
  IN IF windows_by_class # <<>> THEN prioritize_main_windows(windows_by_class)
     ELSE prioritize_main_windows(windows_by_title)

\* get_window_workspace_and_monitor (458-491)
get_window_workspace_and_monitor(window_id) ==
  [workspace |-> tree[window_id], monitor |-> OutputOf(tree[window_id])]

\* a slip: the first window found, whatever its place
choose_window_first(windows) == windows[1]

\* find_and_focus_program (624-660): focused, then in the current workspace,
\* then on the current monitor, then any other
choose_window(windows) ==
  LET current_workspace == get_current_workspace
      current_monitor == get_current_monitor
      focused_windows == SelectSeq(windows, LAMBDA w : w.focused)
      current_workspace_windows ==
        SelectSeq(windows, LAMBDA w :
          /\ ~w.focused
          /\ get_window_workspace_and_monitor(w.id).workspace = current_workspace)
      current_monitor_windows ==
        SelectSeq(windows, LAMBDA w :
          /\ ~w.focused
          /\ get_window_workspace_and_monitor(w.id).workspace # current_workspace
          /\ get_window_workspace_and_monitor(w.id).monitor = current_monitor)
  IN IF focused_windows # <<>> THEN focused_windows[1]
     ELSE IF current_workspace_windows # <<>> THEN current_workspace_windows[1]
     ELSE IF current_monitor_windows # <<>> THEN current_monitor_windows[1]
     ELSE windows[1]

\* __main__ (945-949) and find_and_focus_program (619-660, 668-674)
find_and_focus ==
  /\ proc.pc = "main"
  /\ command = "find-and-focus"
  /\ LET parsed == parse_assignment(args.assignments[1])
         windows == find_window_by_class_or_title(args.program_name)
     IN proc' =
          IF parsed.exit # 0 THEN Ended(parsed.exit)
          ELSE IF windows # <<>>
            THEN [proc EXCEPT !.workspace_name = parsed.target,
                              !.position = parsed.position,
                              !.caller = "find-and-focus",
                              !.chosen = choose_window(windows).id,
                              !.pc = "focus chosen"]
          ELSE open_workspace(parsed.target, parsed.position, "find-and-focus")
  /\ UNCHANGED <<command, legal_assignments, outputs, workspaces, tree, started>>
  /\ UNCHANGED <<args, nodes, focus, issued>>
  /\ UNCHANGED called
  /\ UNCHANGED <<rollvars, eachvars>>

\* find_and_focus_program (662-667) and focus_window_by_id (395-406)
FindFocus ==
  /\ proc.pc = "focus chosen"
  /\ \E returncode \in ReturnCodes :
       /\ issued' = Append(issued, Issued("focus id", proc.chosen, returncode))
       /\ IF returncode # 0
            THEN /\ proc' = Ended(1)
                 /\ UNCHANGED focus
            ELSE /\ proc' = Ended(0)
                 /\ focus' = [workspace |-> tree[proc.chosen], window |-> proc.chosen]
  /\ UNCHANGED <<command, legal_assignments, outputs, workspaces, tree, started>>
  /\ UNCHANGED <<args, nodes>>
  /\ UNCHANGED called
  /\ UNCHANGED <<rollvars, eachvars>>

\* find_and_focus_program (676-677) and launch_program_detached (408-430):
\* i3-msg exec, or Popen when that fails; Popen may raise
FindLaunch ==
  /\ proc.pc = "launch"
  /\ \E returncode \in ReturnCodes :
       IF returncode = 0
         THEN /\ issued' = Append(issued, Issued("exec", args.program_name, 0))
              /\ proc' = Ended(0)
         ELSE \E raised \in ReturnCodes :
                /\ issued' = issued \o <<Issued("exec", args.program_name, returncode),
                                         Issued("Popen", args.program_name, raised)>>
                /\ proc' = Ended(raised)
  /\ UNCHANGED <<command, legal_assignments, outputs, workspaces, tree, started>>
  /\ UNCHANGED <<args, nodes, focus>>
  /\ UNCHANGED called
  /\ UNCHANGED <<rollvars, eachvars>>

alacritty == <<"a", "l", "a", "c", "r", "i", "t", "t", "y">>

\* the test of is_focused_alacritty (561-563) and find_alacritty_on_monitor
\* (507-511)
IsAlacritty(node) ==
  Contains(lower(node.class), alacritty) \/ Contains(lower(node.instance), alacritty)

\* is_focused_alacritty (537-567): the focused node is an Alacritty window
is_focused_alacritty == focus.window # 0 /\ IsAlacritty(nodes[focus.window])

\* a slip: the Alacritty windows of all monitors
find_alacritty_anywhere(monitor_name) ==
  SelectSeq(tree_windows, LAMBDA c : IsAlacritty(nodes[c]))

\* find_alacritty_on_monitor (493-535): the ids of the Alacritty windows
\* below the output
find_alacritty_on_monitor(monitor_name) ==
  SelectSeq(tree_windows, LAMBDA c :
    OutputOf(tree[c]) = monitor_name /\ IsAlacritty(nodes[c]))

\* __main__ (950-952) and find_or_open_terminal (569-583, 595-599, 607-609)
find_or_open_term ==
  /\ proc.pc = "main"
  /\ command = "find-or-open-term"
  /\ LET current_monitor == get_current_monitor
         alacritty_windows == find_alacritty_on_monitor(current_monitor)
     IN proc' =
          IF current_monitor = "None" THEN Ended(1)
          ELSE IF is_focused_alacritty THEN [proc EXCEPT !.pc = "launch terminal"]
          ELSE IF alacritty_windows # <<>>
            THEN [proc EXCEPT !.pc = "focus terminal", !.chosen = alacritty_windows[1]]
          ELSE [proc EXCEPT !.pc = "launch terminal"]
  /\ UNCHANGED <<command, legal_assignments, outputs, workspaces, tree, started>>
  /\ UNCHANGED <<args, nodes, focus, issued>>
  /\ UNCHANGED called
  /\ UNCHANGED <<rollvars, eachvars>>

\* find_or_open_terminal (584-594, 610-617): Popen(['alacritty']), which may raise
TermLaunch ==
  /\ proc.pc = "launch terminal"
  /\ \E raised \in ReturnCodes :
       /\ issued' = Append(issued, Issued("Popen", alacritty, raised))
       /\ proc' = Ended(raised)
  /\ UNCHANGED <<command, legal_assignments, outputs, workspaces, tree, started>>
  /\ UNCHANGED <<args, nodes, focus>>
  /\ UNCHANGED called
  /\ UNCHANGED <<rollvars, eachvars>>

\* find_or_open_terminal (600-606) and focus_window_by_id (395-406)
TermFocus ==
  /\ proc.pc = "focus terminal"
  /\ \E returncode \in ReturnCodes :
       /\ issued' = Append(issued, Issued("focus id", proc.chosen, returncode))
       /\ IF returncode # 0
            THEN /\ proc' = Ended(1)
                 /\ UNCHANGED focus
            ELSE /\ proc' = Ended(0)
                 /\ focus' = [workspace |-> tree[proc.chosen], window |-> proc.chosen]
  /\ UNCHANGED <<command, legal_assignments, outputs, workspaces, tree, started>>
  /\ UNCHANGED <<args, nodes>>
  /\ UNCHANGED called
  /\ UNCHANGED <<rollvars, eachvars>>

(***************************************************************************)
(* The runs of the script: its command line and the window manager it      *)
(* finds.  Outputs are 4 wide and 4 high; "P" is marked primary, "O" is    *)
(* not active.                                                             *)
(***************************************************************************)
Output(name, active, primary, x, y) ==
  [name |-> name, active |-> active, primary |-> primary,
   rect |-> [x |-> x, y |-> y, width |-> 4, height |-> 4]]

Screens ==
  {Output("P", TRUE, TRUE, 8, 0),
   Output("L", TRUE, FALSE, 4, 0),
   Output("L2", TRUE, FALSE, 0, 4),
   Output("R", TRUE, FALSE, 12, 0),
   Output("R1", TRUE, FALSE, 12, 1),
   Output("R2", TRUE, FALSE, 16, 2),
   Output("D", TRUE, FALSE, 8, 4),
   Output("O", FALSE, FALSE, 4, 0)}

\* the outputs i3 lists: up to MaxMonitors different ones
Layouts ==
  {l \in UNION {[1..n -> Screens] : n \in 1..MaxMonitors} :
     \A i, j \in 1..Len(l) : i # j => l[i] # l[j]}

ActiveNames(l) == {l[i].name : i \in {j \in 1..Len(l) : l[j].active}}

Assign(name, position) == name \o <<"=">> \o position

WorkspaceU == <<"U">>

WorkspaceV == <<"V">>

WorkspaceX == <<"X">>

WorkspaceY == <<"Y">>

\* the texts parse_assignment is given: a name of up to MaxName characters,
\* with or without '=' after it, and a position or something else
NameChars == {"U", "="}

Names == {<<>>} \cup SeqsUpTo(NameChars, MaxName)

Tails == Positions \cup {<<>>, <<"u", "p">>, <<"L", "e", "f", "t">>}

ParseTexts ==
  {Assign(n, t) : n \in Names, t \in Tails} \cup {n \o t : n \in Names, t \in Tails}

PlainAssignments ==
  {Assign(WorkspaceU, left), Assign(WorkspaceV, left), Assign(WorkspaceV, middle)}

Window(name, output) == [name |-> name, output |-> output]

\* no argument but the legal workspaces; a window of no interest
NoArgs == [assignments |-> <<>>, type |-> "", program_name |-> <<>>]

PlainNode == [class |-> <<>>, instance |-> <<>>, title |-> <<>>]

StartOfScript ==
  [pc |-> "main", status |-> -1, i |-> 0,
   workspace_name |-> <<>>, position |-> <<>>, monitor |-> "",
   legal_workspaces |-> <<>>, legal_by_monitor |-> <<>>,
   illegal_workspaces |-> <<>>, containers |-> <<>>, target_workspace |-> <<>>,
   success_count |-> 0, failed |-> FALSE, caller |-> "", chosen |-> 0]

\* any text as the last assignment, on one output
ParseRuns ==
  /\ legal_assignments \in
       {<<a>> : a \in ParseTexts} \cup
       {<<Assign(WorkspaceV, middle), a>> : a \in ParseTexts}
  /\ outputs = <<Output("P", TRUE, TRUE, 8, 0)>>
  /\ workspaces = <<Window(WorkspaceU, "P"), Window(WorkspaceX, "P")>>
  /\ tree = [c \in 1..MaxContainers |-> WorkspaceX]

\* one assignment to each position, on every layout, with no window open
TargetRuns ==
  /\ legal_assignments \in {<<Assign(WorkspaceU, p)>> : p \in Positions}
  /\ outputs \in Layouts
  /\ workspaces =
       IF ActiveNames(outputs) = {} THEN <<>>
       ELSE <<Window(WorkspaceU, SelectSeq(outputs, LAMBDA o : o.active)[1].name)>>
  /\ tree = <<>>

\* up to MaxAssignments legal workspaces; the workspaces U, X and Y on one
\* or two outputs, with up to MaxContainers windows
ClearRuns ==
  /\ legal_assignments \in SeqsUpTo(PlainAssignments, MaxAssignments)
  /\ outputs \in {<<Output("P", TRUE, TRUE, 8, 0)>>,
                   <<Output("L", TRUE, FALSE, 4, 0), Output("P", TRUE, TRUE, 8, 0)>>}
  /\ \E ox, oy \in ActiveNames(outputs) :
       workspaces = <<Window(WorkspaceU, "P"), Window(WorkspaceX, ox),
                      Window(WorkspaceY, oy)>>
  /\ tree \in [1..MaxContainers -> {WorkspaceU, WorkspaceX, WorkspaceY}]

\* clear-illegal-workspaces: no other argument, windows of no interest
ClearCommand ==
  /\ command = "clear-illegal-workspaces"
  /\ ParseRuns \/ TargetRuns \/ ClearRuns
  /\ args = NoArgs
  /\ nodes = [c \in DOMAIN tree |-> PlainNode]
  /\ focus = [workspace |-> WorkspaceU, window |-> 0]

\* workspaces with a number: '2' and '2U' both have the number 2
Workspace2 == <<"2">>

Workspace2U == <<"2", "U">>

OneScreen == <<Output("P", TRUE, TRUE, 8, 0)>>

TwoScreens == <<Output("L", TRUE, FALSE, 4, 0), Output("P", TRUE, TRUE, 8, 0)>>

\* up to MaxWorkspaces different workspaces, at least one on every output
Placed(names, outs) ==
  {l \in UNION {[1..n -> [name : names, output : ActiveNames(outs)]] :
                  n \in 1..MaxWorkspaces} :
     /\ \A i, j \in 1..Len(l) : i # j => l[i].name # l[j].name
     /\ \A o \in ActiveNames(outs) : \E i \in 1..Len(l) : l[i].output = o}

\* the focus is on a workspace, and on one of its windows or on none
Focused ==
  /\ \E i \in 1..Len(workspaces) : focus.workspace = workspaces[i].name
  /\ focus.window \in {0} \cup {c \in DOMAIN tree : tree[c] = focus.workspace}

NoWindows == tree = <<>> /\ nodes = <<>>

\* open-ws: one assignment, of a workspace that is there by its name, by its
\* number or not at all, on one or two outputs or on none that is active
OpenTargets == {WorkspaceU, Workspace2, <<"-", "1">>}

OpenAssignments ==
  {Assign(t, p) : t \in OpenTargets, p \in {left, middle}} \cup {<<"U">>}

OpenRuns ==
  /\ command = "open-ws"
  /\ legal_assignments = <<>>
  /\ args \in [assignments : {<<a>> : a \in OpenAssignments}, type : {""},
                program_name : {<<>>}]
  /\ \/ /\ outputs \in {OneScreen, TwoScreens}
        /\ workspaces \in Placed({WorkspaceU, Workspace2, Workspace2U}, outputs)
        /\ focus \in [workspace : {workspaces[1].name}, window : {0}]
     \/ /\ outputs = <<Output("O", FALSE, FALSE, 4, 0)>>
        /\ workspaces = <<>>
        /\ focus = [workspace |-> <<>>, window |-> 0]
  /\ NoWindows

\* move-ws-to-monitor: up to MaxAssignments assignments; with --type window
\* one window, whose title is 'U'
MoveAssignments ==
  {Assign(Workspace2, left), Assign(Workspace2, middle), Assign(WorkspaceU, middle)}

MoveRuns ==
  /\ command = "move-ws-to-monitor"
  /\ legal_assignments = <<>>
  /\ outputs \in {OneScreen, TwoScreens}
  /\ workspaces \in Placed({WorkspaceU, Workspace2, Workspace2U}, outputs)
  /\ \/ /\ args \in [assignments : SeqsUpTo(MoveAssignments, MaxAssignments)
                                      \cup {<<<<"U">>>>},
                      type : {"workspace"}, program_name : {<<>>}]
        /\ NoWindows
        /\ focus \in [workspace : {workspaces[1].name}, window : {0}]
     \/ /\ args \in [assignments : {<<a>> : a \in MoveAssignments},
                      type : {"window"}, program_name : {<<>>}]
        /\ tree = <<workspaces[1].name>>
        /\ nodes = <<[class |-> <<>>, instance |-> <<>>, title |-> <<"U">>]>>
        /\ focus = [workspace |-> workspaces[1].name, window |-> 0]

\* find-and-focus and find-or-open-term: U on the output L, X and Y on the
\* output P, and up to MaxContainers windows
ThreeWorkspaces ==
  <<Window(WorkspaceU, "L"), Window(WorkspaceX, "P"), Window(WorkspaceY, "P")>>

Node(class, instance, title) == [class |-> class, instance |-> instance, title |-> title]

\* the program 'Ab': in the class, in the instance, in the title only, in the
\* class of a tool window, nowhere
FindNodes ==
  {Node(<<"A", "B">>, <<>>, <<"x">>),
   Node(<<"c">>, <<"x", "a", "b">>, <<"x">>),
   Node(<<"c">>, <<>>, <<"a", "B">>),
   Node(<<"a", "b">>, <<>>, <<"A", "b", " ", "L", "o", "g">>),
   Node(<<"c">>, <<>>, <<"c">>)}

Trees(kinds) ==
  UNION {[tree : [1..n -> {WorkspaceU, WorkspaceX, WorkspaceY}], nodes : [1..n -> kinds]] :
           n \in 0..MaxContainers}

FindRuns ==
  /\ command = "find-and-focus"
  /\ legal_assignments = <<>>
  /\ args \in [assignments : {<<Assign(WorkspaceU, left)>>, <<Assign(WorkspaceV, left)>>,
                               <<<<"U">>>>},
                type : {""}, program_name : {<<"A", "b">>}]
  /\ outputs = TwoScreens
  /\ workspaces = ThreeWorkspaces
  /\ \E t \in Trees(FindNodes) : tree = t.tree /\ nodes = t.nodes
  /\ focus \in [workspace : {WorkspaceX}, window : 0..MaxContainers]
  /\ Focused

\* Alacritty by its class, by its instance, and another window
TermNodes ==
  {Node(<<"A", "l", "a", "c", "r", "i", "t", "t", "y">>, <<>>, <<>>),
   Node(<<>>, <<"a", "l", "a", "c", "r", "i", "t", "t", "y">>, <<>>),
   Node(<<"c">>, <<>>, <<"a", "l", "a", "c", "r", "i", "t", "t", "y">>)}

TermRuns ==
  /\ command = "find-or-open-term"
  /\ legal_assignments = <<>>
  /\ args = NoArgs
  /\ outputs = TwoScreens
  /\ workspaces = ThreeWorkspaces
  /\ \E t \in Trees(TermNodes) : tree = t.tree /\ nodes = t.nodes
  /\ focus \in [workspace : {WorkspaceU, WorkspaceX, WorkspaceY}, window : 0..MaxContainers]
  /\ Focused

InitI3 ==
  /\ NoRoll
  /\ NoForeach
  /\ ClearCommand \/ OpenRuns \/ MoveRuns \/ FindRuns \/ TermRuns
  /\ started = tree
  /\ proc = StartOfScript
  /\ issued = <<>>
  /\ called = [workspaces |-> workspaces, focus |-> focus, issued |-> 0]

NextI3 ==
  \/ clear_illegal_workspaces
  \/ ClearLegal
  \/ ClearFind
  \/ ClearProcess
  \/ ClearMove
  \/ ClearMoved
  \/ ClearReturn
  \/ open_ws
  \/ OpenExisting
  \/ OpenFocusMonitor
  \/ OpenCreate
  \/ move_ws_to_monitor
  \/ MoveSwitchOnly
  \/ MoveSwitch
  \/ MoveWorkspace
  \/ MoveSwitchAgain
  \/ MoveWindowFocus
  \/ MoveWindow
  \/ find_and_focus
  \/ FindFocus
  \/ FindLaunch
  \/ find_or_open_term
  \/ TermLaunch
  \/ TermFocus

SpecI3 == InitI3 /\ [][NextI3]_vars

(***************************************************************************)
(* C18: parse_assignment splits on the last '=': for every name, also an   *)
(* empty one or one with '=' in it, and each of the four positions,        *)
(* parse_assignment(name + '=' + position) returns (name, position); for a *)
(* text without '=' or with something else after its last '=' it exits     *)
(* with status 1 and returns nothing.                                      *)
(***************************************************************************)
Splits(a) == {k \in 1..Len(a) : a[k] = "=" /\ Drop(a, k) \in Positions}

Parsing == command = "clear-illegal-workspaces" /\ proc.pc \notin {"off", "main"}

\* the script has exited while it handled the assignment proc.i
Exited == Parsing /\ proc.pc = "ended" /\ proc.i <= Len(legal_assignments)

\* the (name, position) last returned is that of the assignment a
ParsedAs(a) ==
  /\ Splits(a) # {}
  /\ \A k \in Splits(a) :
       /\ proc.workspace_name = Take(a, k - 1)
       /\ proc.position = Drop(a, k)

C18_ParseAssignment ==
  /\ (Parsing /\ proc.i > 1) =>
       \/ ParsedAs(legal_assignments[proc.i - 1])
       \/ Exited /\ Splits(legal_assignments[proc.i]) # {}
  /\ Exited =>
       /\ proc.status = 1
       /\ IF Splits(legal_assignments[proc.i]) = {}
            THEN Len(proc.legal_workspaces) <= proc.i - 1
            ELSE ParsedAs(legal_assignments[proc.i])

\* '==left' is the name '=' at the position left
C18_Witness ==
  /\ legal_assignments = <<<<"=", "=", "l", "e", "f", "t">>>>
  /\ proc.i = 2
  /\ proc.workspace_name = <<"=">>
  /\ proc.position = left

(***************************************************************************)
(* C19, as claimed: get_target_monitor always returns the name of an       *)
(* active output, never exiting instead: for 'middle' the primary monitor; *)
(* for 'left', 'right' and 'down' the                                      *)
(* qualifying monitor closest to the primary (the rightmost of those left  *)
(* of it, the leftmost of those right of it at roughly its height, the     *)
(* topmost of those below it), and the primary monitor when none           *)
(* qualifies.                                                              *)
(***************************************************************************)
Active == {outputs[i] : i \in {j \in 1..Len(outputs) : outputs[j].active}}

Primary ==
  LET marked == {i \in 1..Len(outputs) : outputs[i].active /\ outputs[i].primary}
      active == {i \in 1..Len(outputs) : outputs[i].active}
      from == IF marked # {} THEN marked ELSE active
  IN outputs[CHOOSE i \in from : \A j \in from : i <= j]

LeftOfPrimary == {m \in Active : m.rect.x < Primary.rect.x}

RightOfPrimary ==
  {m \in Active :
     /\ m.rect.x >= Primary.rect.x + Primary.rect.width
     /\ 2 * Abs(m.rect.y - Primary.rect.y) < Primary.rect.height}

BelowPrimary == {m \in Active : 2 * m.rect.y >= 2 * Primary.rect.y + Primary.rect.height}

\* get_target_monitor has exited, called with a position parse_assignment gave
TargetExited == Exited /\ Splits(legal_assignments[proc.i]) # {}

\* get_target_monitor has been called, and proc.position was its argument
Targeted == Parsing /\ (TargetExited \/ proc.i > 1)

Closest ==
  /\ \E m \in Active : m.name = proc.monitor
  /\ proc.position = middle => proc.monitor = Primary.name
  /\ proc.position = left =>
       IF LeftOfPrimary = {} THEN proc.monitor = Primary.name
       ELSE \E m \in LeftOfPrimary :
              /\ m.name = proc.monitor
              /\ \A n \in LeftOfPrimary : n.rect.x <= m.rect.x
  /\ proc.position = right =>
       IF RightOfPrimary = {} THEN proc.monitor = Primary.name
       ELSE \E m \in RightOfPrimary :
              /\ m.name = proc.monitor
              /\ \A n \in RightOfPrimary : n.rect.x >= m.rect.x
  /\ proc.position = down =>
       IF BelowPrimary = {} THEN proc.monitor = Primary.name
       ELSE \E m \in BelowPrimary :
              /\ m.name = proc.monitor
              /\ \A n \in BelowPrimary : n.rect.y >= m.rect.y

C19_AsClaimed == Targeted => (~TargetExited /\ Closest)

(***************************************************************************)
(* C19, amended: while at least one output is active, get_target_monitor   *)
(* returns the name of an active output: for 'middle' the primary monitor; *)
(* for 'left', 'right' and 'down' the qualifying monitor closest to the    *)
(* primary (the rightmost of those left of it, the leftmost of those right *)
(* of it at roughly its height, the topmost of those below it), and the    *)
(* primary monitor when none qualifies. While no output is active it       *)
(* returns nothing: it exits with status 1.                                *)
(***************************************************************************)
C19_TargetMonitor ==
  Targeted =>
    IF Active = {} THEN TargetExited /\ proc.status = 1
    ELSE ~TargetExited /\ Closest

\* with L2 at x = 0, L at x = 4 and the primary at x = 8, left is L
C19_Witness ==
  /\ Targeted
  /\ outputs = <<Output("L2", TRUE, FALSE, 0, 4), Output("L", TRUE, FALSE, 4, 0),
                 Output("P", TRUE, TRUE, 8, 0)>>
  /\ proc.position = left
  /\ proc.monitor = "L"

(***************************************************************************)
(* C20, as claimed: after clear_illegal_workspaces has returned with every *)
(* move done, every window that was in an unlisted workspace is in a       *)
(* listed workspace assigned to the monitor the window started on, and no  *)
(* window that started in a listed workspace has been moved.               *)
(***************************************************************************)
Cleared == Parsing /\ proc.pc = "ended" /\ proc.status = 0 /\ ~proc.failed

\* the assignments of the command line, in their order: [name, monitor]
Listed ==
  [i \in 1..Len(legal_assignments) |->
     LET a == legal_assignments[i]
         k == CHOOSE k \in Splits(a) : TRUE
     IN [name |-> Take(a, k - 1), monitor |-> get_target_monitor(Drop(a, k)).name]]

IsListed(name) == \E i \in 1..Len(Listed) : Listed[i].name = name

\* the output of the workspace a window started in
StartMonitor(c) ==
  workspaces[CHOOSE i \in 1..Len(workspaces) : workspaces[i].name = started[c]].output

OnMonitor(m) == {i \in 1..Len(Listed) : Listed[i].monitor = m}

C23_AssertionHolds ==
  /\ \A i \in 1..Len(rolled) : rolled[i].err # "AssertionError"
  /\ \A i \in 1..Len(stack) :
       stack[i].pc = "damage" => Len(stack[i].subresult) = 1

(***************************************************************************)
(* C24: roll terminates on every input text, and the depth of the nested   *)
(* calls made for damage suffixes never exceeds the number of arrows '-->' *)
(* in the clause, each nested call evaluating a text with strictly fewer   *)
(* arrows than the clause it was made for.  Termination is shown by a rank *)
(* of the call stack that every step of roll lowers: frame by frame from   *)
(* the outermost call, the clauses still to do, the step within the clause *)
(* and the repetitions still to do.  With the depth bounded, no rank can   *)
(* be lowered for ever.                                                    *)
(***************************************************************************)
Arrows(t) ==
  Cardinality({i \in 1..(Len(t) - 2) : t[i] = "-" /\ t[i + 1] = "-" /\ t[i + 2] = ">"})

StepRank(pc) == CASE pc = "times" -> 2 [] pc = "damage" -> 1 [] OTHER -> 0

Rank(f) ==
  <<Len(f.subrolls), StepRank(f.pc),
    IF f.pc = "times" THEN f.times - Len(f.subresult) ELSE 0>>

\* a before b in the order of dictionaries, on triples of naturals
RankBelow(a, b) ==
  \E i \in 1..3 : a[i] < b[i] /\ \A j \in 1..(i - 1) : a[j] = b[j]

\* the stack s is below the stack t: a proper beginning of it, or lower in
\* the first frame whose rank differs
StackBelow(s, t) ==
  \/ Len(s) < Len(t) /\ \A i \in 1..Len(s) : Rank(s[i]) = Rank(t[i])
  \/ \E i \in 1..Len(t) :
       /\ i <= Len(s)
       /\ RankBelow(Rank(s[i]), Rank(t[i]))
       /\ \A j \in 1..(i - 1) : Rank(s[j]) = Rank(t[j])

DepthBounded ==
  \A i \in 1..Len(stack) :
    /\ \A k \in 0..2 : Rank(stack[i])[k + 1] >= 0
    /\ i < Len(stack) =>
         /\ stack[i].pc = "damage"
         /\ Arrows(stack[i + 1].text) < Arrows(stack[i].clause)
         /\ Len(stack) - i <= Arrows(stack[i].clause)

Lowered == stack # <<>> => StackBelow(stack', stack)

C24_Terminates == []DepthBounded /\ [][Lowered]_rollvars

\* two arrows, two nested calls: 2>1-->x1-->d2 rolls 1x1-->d2, which rolls 1d2
C24_Witness ==
  /\ Len(stack) = 3
  /\ Arrows(stack[1].clause) = 2
  /\ Arrows(stack[2].text) = 1
  /\ stack[3].text = <<"1", "d", "2">>

(***************************************************************************)
(* C25, as claimed: open_workspace on a workspace that does not exist (no  *)
(* workspace has the name) issues 'focus output <target monitor>' before   *)
(* 'workspace <name>' and no 'workspace' command when focusing the monitor *)
(* fails; on a workspace that exists (some workspace has the name) it      *)
(* issues only 'workspace <name>'.                                         *)
(***************************************************************************)
Opening == command = "open-ws" /\ proc.caller = "open-ws"

\* the commands of open_workspace on a workspace that is there
OnlyWorkspace ==
  /\ Len(issued) <= 1
  /\ \A k \in 1..Len(issued) :
       issued[k].command = "workspace" /\ issued[k].argument = proc.workspace_name
  /\ proc.pc = "ended" => Len(issued) = 1
  /\ (proc.pc = "ended" /\ proc.status = 0) => issued[1].returncode = 0

\* the commands of open_workspace on a workspace that is not there
FocusThenWorkspace ==
  LET target_monitor == get_target_monitor(proc.position) IN
    /\ Len(issued) <= 2
    /\ Len(issued) >= 1 =>
         /\ target_monitor.exit = 0
         /\ issued[1].command = "focus output"
         /\ issued[1].argument = target_monitor.name
    /\ Len(issued) = 2 =>
         /\ issued[1].returncode = 0
         /\ issued[2].command = "workspace"
         /\ issued[2].argument = proc.workspace_name
    /\ (proc.pc = "ended" /\ proc.status = 0) =>
         Len(issued) = 2 /\ issued[2].returncode = 0
    /\ (proc.pc = "ended" /\ Len(issued) < 2) => proc.status = 1

ThereByName ==
  \E i \in 1..Len(called.workspaces) : called.workspaces[i].name = proc.workspace_name

C25_AsClaimed == Opening => IF ThereByName THEN OnlyWorkspace ELSE FocusThenWorkspace

(***************************************************************************)
(* C25, amended: a workspace exists for open_workspace when some workspace *)
(* has the given name or has the given text as its number (i3 numbers a    *)
(* workspace by the digits its name starts with, and -1 without any).  On  *)
(* a workspace that does not exist in this sense open_workspace issues     *)
(* 'focus output <target monitor>' before 'workspace <name>', and issues   *)
(* no 'workspace' command when focusing the monitor fails; on a workspace  *)
(* that exists it issues only the 'workspace <name>' command and never a   *)
(* focus-output or move command.                                           *)
(***************************************************************************)
ThereByNameOrNumber ==
  \E i \in 1..Len(called.workspaces) :
    \/ called.workspaces[i].name = proc.workspace_name
    \/ str(num(called.workspaces[i].name)) = proc.workspace_name

C25_OpenWorkspace ==
  Opening => IF ThereByNameOrNumber THEN OnlyWorkspace ELSE FocusThenWorkspace

\* '2=left' while only the workspace '2U' is there: one 'workspace 2'
C25_Witness ==
  /\ Opening
  /\ proc.pc = "ended"
  /\ proc.status = 0
  /\ proc.workspace_name = Workspace2
  /\ ~ThereByName
  /\ issued = <<Issued("workspace", Workspace2, 0)>>

(***************************************************************************)
(* C26, as claimed: move_to_monitor with type 'workspace' issues only a    *)
(* switch, and no 'move workspace to output', when the workspace of the    *)
(* given name is on the target monitor; otherwise it issues switch, move,  *)
(* switch in that order, and a non-zero result of the first switch or of   *)
(* the move stops the program with status 1 before any later command.      *)
(***************************************************************************)
Moving ==
  /\ command = "move-ws-to-monitor"
  /\ args.type = "workspace"
  /\ proc.i >= 1

\* the commands issued since move_to_monitor was called
Segment == SubSeq(issued, called.issued + 1, Len(issued))

\* move_to_monitor has returned
MoveReturned == proc.pc = "next" \/ (proc.pc = "ended" /\ proc.status = 0)

IsSwitch(c) == c.command = "workspace" /\ c.argument = proc.workspace_name

IsMove(c) ==
  /\ c.command = "move workspace to output"
  /\ c.argument = get_target_monitor(proc.position).name

OnlySwitch ==
  /\ Len(Segment) <= 1
  /\ \A k \in 1..Len(Segment) : IsSwitch(Segment[k])
  /\ MoveReturned => Len(Segment) = 1

SwitchMoveSwitch ==
  /\ Len(Segment) <= 3
  /\ Len(Segment) >= 1 => IsSwitch(Segment[1])
  /\ Len(Segment) >= 2 => Segment[1].returncode = 0 /\ IsMove(Segment[2])
  /\ Len(Segment) = 3 => Segment[2].returncode = 0 /\ IsSwitch(Segment[3])
  /\ MoveReturned => Len(Segment) = 3
  /\ (Len(Segment) \in {1, 2} /\ Segment[Len(Segment)].returncode # 0) =>
       proc.pc = "ended" /\ proc.status = 1

OnTargetByName ==
  \E i \in 1..Len(called.workspaces) :
    /\ called.workspaces[i].name = proc.workspace_name
    /\ called.workspaces[i].output = get_target_monitor(proc.position).name

C26_AsClaimed == Moving => IF OnTargetByName THEN OnlySwitch ELSE SwitchMoveSwitch

(***************************************************************************)
(* C26, amended: the workspace move_to_monitor looks at is the first       *)
(* workspace that has the given name or has the given text as its number.  *)
(* With type 'workspace' it issues only a switch, and no 'move workspace   *)
(* to output', when that workspace is on the target monitor; otherwise     *)
(* (also when there is no such workspace) it issues switch, move, switch   *)
(* in that order, and a non-zero result of the first switch or of the move *)
(* stops the program with exit status 1 before any later command is        *)
(* issued.                                                                 *)
(***************************************************************************)
OnTarget ==
  LET found == {i \in 1..Len(called.workspaces) :
                  \/ called.workspaces[i].name = proc.workspace_name
                  \/ str(num(called.workspaces[i].name)) = proc.workspace_name}
  IN /\ found # {}
     /\ called.workspaces[CHOOSE i \in found : \A j \in found : i <= j].output
          = get_target_monitor(proc.position).name

C26_MoveToMonitor == Moving => IF OnTarget THEN OnlySwitch ELSE SwitchMoveSwitch

\* U is on L and goes to the primary P: switch, move, switch
C26_Witness ==
  /\ Moving
  /\ proc.pc = "ended"
  /\ proc.status = 0
  /\ args.assignments = <<Assign(WorkspaceU, middle)>>
  /\ issued = <<Issued("workspace", WorkspaceU, 0),
                Issued("move workspace to output", "P", 0),
                Issued("workspace", WorkspaceU, 0)>>

(***************************************************************************)
(* C21, as claimed: when at least one window matches the program (in its   *)
(* class, instance or title), find_and_focus_program focuses exactly one   *)
(* matching window, none of the matching windows coming before it in the   *)
(* priority focused > current workspace > current monitor > any other, and *)
(* launches nothing; only when no window matches does it open the          *)
(* workspace and launch the program.                                       *)
(***************************************************************************)
Finding == command = "find-and-focus" /\ proc.caller = "find-and-focus"

InText(c, field) == Contains(lower(nodes[c][field]), lower(args.program_name))

ByClass == {c \in DOMAIN nodes : InText(c, "class") \/ InText(c, "instance")}

ByTitle == {c \in DOMAIN nodes : InText(c, "title")}

\* 0: focused, 1: in the current workspace, 2: on the current monitor, 3: other
Priority(c) ==
  LET current == called.focus.workspace IN
    IF called.focus.window = c THEN 0
    ELSE IF started[c] = current THEN 1
    ELSE IF OutputOf(started[c]) = OutputOf(current) THEN 2
    ELSE 3

\* one focus command, on a window of the set that none of the set precedes
FocusesBestOf(set) ==
  /\ Len(issued) <= 1
  /\ proc.pc = "ended" => Len(issued) = 1
  /\ \A k \in 1..Len(issued) :
       /\ issued[k].command = "focus id"
       /\ issued[k].argument \in set
       /\ \A c \in set : Priority(issued[k].argument) <= Priority(c)
       /\ proc.pc = "ended" /\ (proc.status = 0 <=> issued[k].returncode = 0)

\* the workspace is opened and the program launched, no window is focused
OpensAndLaunches ==
  /\ \A k \in 1..Len(issued) :
       /\ issued[k].command \in {"workspace", "focus output", "exec", "Popen"}
       /\ issued[k].command \in {"exec", "Popen"} =>
            /\ issued[k].argument = args.program_name
            /\ \E j \in 1..(k - 1) :
                 /\ issued[j].command = "workspace"
                 /\ issued[j].argument = proc.workspace_name
                 /\ issued[j].returncode = 0
  /\ (proc.pc = "ended" /\ proc.status = 0) =>
       issued[Len(issued)].command \in {"exec", "Popen"}

C21_AsClaimed ==
  Finding =>
    IF ByClass \cup ByTitle # {} THEN FocusesBestOf(ByClass \cup ByTitle)
    ELSE OpensAndLaunches

(***************************************************************************)
(* C21, amended: the windows find_and_focus_program chooses from are those *)
(* that have the program name in their class or instance or, when there is *)
(* none, those that have it in their title, and of these the ones whose    *)
(* title has no tool keyword (debug, run, console, terminal, log, output,  *)
(* tool, toolbox) unless all have one.  When at least one window matches,  *)
(* it focuses exactly one of the windows it chooses from, by the priority  *)
(* focused > current workspace > current monitor > any other, and launches *)
(* nothing; only when no window matches does it open the workspace and     *)
(* launch the program.                                                     *)
(***************************************************************************)
IsTool(c) == \E keyword \in secondary_keywords : Contains(lower(nodes[c].title), keyword)

Candidates ==
  LET matching == IF ByClass # {} THEN ByClass ELSE ByTitle
      plain == {c \in matching : ~IsTool(c)}
  IN IF plain # {} THEN plain ELSE matching

C21_FindAndFocus ==
  Finding =>
    IF ByClass \cup ByTitle # {} THEN FocusesBestOf(Candidates)
    ELSE OpensAndLaunches

\* the focused window has the name in its title only, another has it in its
\* class: the other one is focused
C21_Witness ==
  /\ Finding
  /\ proc.pc = "ended"
  /\ proc.status = 0
  /\ called.focus.window = 1
  /\ 1 \in ByTitle \ ByClass
  /\ 2 \in ByClass
  /\ issued = <<Issued("focus id", 2, 0)>>

(***************************************************************************)
(* C22: find_or_open_terminal launches a new Alacritty exactly when the    *)
(* focused window is already Alacritty or no Alacritty window is on the    *)
(* current monitor; otherwise it focuses an Alacritty window that is on    *)
(* the current monitor and launches nothing.                               *)
(***************************************************************************)
Terminal == command = "find-or-open-term" /\ proc.pc \notin {"off", "main"}

Alacritty ==
  {c \in DOMAIN nodes :
     \/ Contains(lower(nodes[c].class), alacritty)
     \/ Contains(lower(nodes[c].instance), alacritty)}

OnCurrentMonitor ==
  {c \in Alacritty : OutputOf(started[c]) = OutputOf(called.focus.workspace)}

LaunchesOnly ==
  /\ Len(issued) <= 1
  /\ proc.pc = "ended" => Len(issued) = 1
  /\ \A k \in 1..Len(issued) :
       issued[k].command = "Popen" /\ issued[k].argument = alacritty

FocusesOnly ==
  /\ Len(issued) <= 1
  /\ proc.pc = "ended" => Len(issued) = 1
  /\ \A k \in 1..Len(issued) :
       issued[k].command = "focus id" /\ issued[k].argument \in OnCurrentMonitor

C22_FindOrOpenTerminal ==
  Terminal =>
    IF called.focus.window \in Alacritty \/ OnCurrentMonitor = {}
      THEN LaunchesOnly ELSE FocusesOnly

\* the only Alacritty is on the other monitor: a new one is launched
C22_Witness ==
  /\ Terminal
  /\ proc.pc = "ended"
  /\ Alacritty # {}
  /\ OnCurrentMonitor = {}
  /\ issued = <<Issued("Popen", alacritty, 0)>>

(***************************************************************************)
(* src/foreach.py: run a command in every subdirectory.                    *)
(*                                                                         *)
(* The file system is the part of it the program can reach: the starting   *)
(* directory /s with its entries, and a directory /o outside of it with a  *)
(* subdirectory /o/x.  An entry of /s is a file, a directory or a symbolic *)
(* link.  os.path.isdir and os.chdir follow symbolic links, and the        *)
(* working directory of a process is a directory, never a link: after      *)
(* os.chdir on a link it is the directory the link leads to, and           *)
(* os.chdir('..') leads to the parent of that directory.                   *)
(* The command is run by a shell in a child process: it has an exit        *)
(* status, it cannot change the working directory of foreach, and here it  *)
(* leaves the directories as they are.                                     *)
(***************************************************************************)
\* the most entries the starting directory has
MaxEntries == 2

RootDir == <<>>
StartDir == <<"s">>
OtherDir == <<"o">>
LinkedDir == <<"o", "x">>

EntryNames == {<<"a", "b", "c", "e">>[i] : i \in 1..MaxEntries}

\* what an entry of the starting directory is: a file, a directory, a link
\* to the directory /o/x, or a link to the entry a of the starting directory
EntryKinds == {"file", "dir", "link out", "link a"}

\* the file system whose starting directory has the entries of `kinds`;
\* with `shadow` the directory /o has a subdirectory named a as well
FileSystem(kinds, shadow) ==
  LET at(e) == StartDir \o <<e>>
      links == {e \in DOMAIN kinds : kinds[e] \in {"link out", "link a"}}
  IN  [dirs  |-> {RootDir, StartDir, OtherDir, LinkedDir}
                   \cup {at(e) : e \in {x \in DOMAIN kinds : kinds[x] = "dir"}}
                   \cup (IF shadow THEN {OtherDir \o <<"a">>} ELSE {}),
       files |-> {at(e) : e \in {x \in DOMAIN kinds : kinds[x] = "file"}},
       links |-> [l \in {at(e) : e \in links} |->
                    IF kinds[l[Len(l)]] = "link out" THEN LinkedDir
                    ELSE StartDir \o <<"a">>]]

FileSystems ==
  {FileSystem(kinds, shadow) :
     kinds \in UNION {[names -> EntryKinds] : names \in SUBSET EntryNames},
     shadow \in BOOLEAN}

\* where no path leads: a missing file, or a loop of links
NoPath == <<"">>

\* the file a path names, following links `fuel` times at most
RECURSIVE Resolve(_, _, _)
Resolve(files, path, fuel) ==
  IF path \in DOMAIN files.links
  THEN IF fuel = 0 THEN NoPath
       ELSE Resolve(files, files.links[path], fuel - 1)
  ELSE IF path \in files.dirs \cup files.files THEN path ELSE NoPath

\* the file a relative name of one component leads to from a directory
Lookup(files, dir, entry) ==
  Resolve(files, dir \o <<entry>>, Cardinality(DOMAIN files.links))

\* os.path.isdir(entry)
isdir(files, dir, entry) == Lookup(files, dir, entry) \in files.dirs

\* the working directory after os.chdir('..') in the directory dir
ParentDir(dir) == IF dir = RootDir THEN RootDir ELSE SubSeq(dir, 1, Len(dir) - 1)

\* os.listdir(dir), as a set: the order is the file system's
listdir(files, dir) ==
  {path[Len(path)] :
     path \in {q \in files.dirs \cup files.files \cup DOMAIN files.links :
                 q # RootDir /\ ParentDir(q) = dir}}

\* the lists that hold each member of a set once
Listings(set) ==
  {list \in [1..Cardinality(set) -> set] :
     \A i, j \in 1..Cardinality(set) : list[i] = list[j] => i = j}

\* ' '.join(words)
SpaceJoin(words) ==
  LET RECURSIVE joined(_)
      joined(i) == IF i > Len(words) THEN <<>>
                   ELSE (IF i > 1 THEN <<" ">> ELSE <<>>) \o words[i] \o joined(i + 1)
  IN  joined(1)

\* sys.argv: the script, then the words of the command
Arguments ==
  {<<"foreach">>, <<"foreach", <<"l", "s">>>>, <<"foreach", <<"l", "s">>, <<"-", "a">>>>}

\* the exit status of the command
CommandStatuses == {0, 1}

Ran(entry, dir, returncode) ==
  [entry |-> entry, cwd |-> dir, returncode |-> returncode]

Header(entry) == <<"### ", entry, " ###">>
ErrorLine(cmd, returncode) ==
  <<"An error occurred while executing the command: ", cmd, returncode>>
BlankLines == <<"\n">>
Usage == <<"Please provide a command to run in each subdirectory.">>

InitEach ==
  /\ NoRoll
  /\ NoScript
  /\ issued = <<>>
  /\ called = <<>>
  /\ argv \in Arguments
  /\ fs \in FileSystems
  /\ cwd = StartDir
  /\ each = [pc |-> "main"]
  /\ ran = <<>>
  /\ printed = <<>>

\* main(), and the listing foreach starts with
foreach_main ==
  /\ each.pc = "main"
  /\ IF Len(argv) > 1
     THEN /\ \E entries \in Listings(listdir(fs, cwd)) :
                each' = [pc |-> "loop", command |-> SpaceJoin(Tail(argv)),
                         entries |-> entries]
          /\ UNCHANGED printed
     ELSE /\ each' = [pc |-> "done"]
          /\ printed' = Append(printed, Usage)
  /\ UNCHANGED <<argv, fs, cwd, ran>>
  /\ UNCHANGED <<rollvars, i3vars>>

\* an entry that is no directory
EachSkip ==
  /\ each.pc = "loop"
  /\ each.entries # <<>>
  /\ ~ isdir(fs, cwd, each.entries[1])
  /\ each' = [each EXCEPT !.entries = Tail(@)]
  /\ UNCHANGED <<argv, fs, cwd, ran, printed>>
  /\ UNCHANGED <<rollvars, i3vars>>

\* an entry that is a directory: the header and os.chdir(entry)
EachEnter ==
  /\ each.pc = "loop"
  /\ each.entries # <<>>
  /\ isdir(fs, cwd, each.entries[1])
  /\ printed' = Append(printed, Header(each.entries[1]))
  /\ cwd' = Lookup(fs, cwd, each.entries[1])
  /\ each' = [each EXCEPT !.pc = "run"]
  /\ UNCHANGED <<argv, fs, ran>>
  /\ UNCHANGED <<rollvars, i3vars>>

\* subprocess.run with check=True, the handler of CalledProcessError,
\* os.chdir('..') and the blank lines
EachRun ==
  /\ each.pc = "run"
  /\ \E returncode \in CommandStatuses :
       /\ ran' = Append(ran, Ran(each.entries[1], cwd, returncode))
       /\ printed' = printed
                       \o (IF returncode # 0
                           THEN <<ErrorLine(each.command, returncode)>> ELSE <<>>)
                       \o <<BlankLines>>
  /\ cwd' = ParentDir(cwd)
  /\ each' = [each EXCEPT !.pc = "loop", !.entries = Tail(@)]
  /\ UNCHANGED <<argv, fs>>
  /\ UNCHANGED <<rollvars, i3vars>>

\* the end of the loop
EachReturn ==
  /\ each.pc = "loop"
  /\ each.entries = <<>>
  /\ each' = [each EXCEPT !.pc = "done"]
  /\ UNCHANGED <<argv, fs, cwd, ran, printed>>
  /\ UNCHANGED <<rollvars, i3vars>>

NextEach ==
  \/ foreach_main
  \/ EachSkip
  \/ EachEnter
  \/ EachRun
  \/ EachReturn

SpecEach == InitEach /\ [][NextEach]_vars

(***************************************************************************)
(* C27: foreach runs the command once in each immediate subdirectory of    *)
(* the starting directory; after every iteration and at return the working *)
(* directory is the starting directory again, whether the command          *)
(* succeeded or failed; a failing command does not stop the iteration.     *)
(* An entry that is a link to a directory is counted as a subdirectory     *)
(* here, as os.path.isdir counts it.                                       *)
(***************************************************************************)
\* foreach is between two iterations, or has returned
BetweenIterations == each.pc \in {"loop", "done"} /\ Len(argv) > 1

\* the entries of the starting directory that are directories
Subdirectories == {e \in listdir(fs, StartDir) : isdir(fs, StartDir, e)}

\* the runs of the command for an entry, in the directory the entry names
RunsIn(e) ==
  {i \in 1..Len(ran) : ran[i].entry = e /\ ran[i].cwd = Lookup(fs, StartDir, e)}

C27_AsClaimed ==
  /\ BetweenIterations => cwd = StartDir
  /\ each.pc = "done" /\ Len(argv) > 1 =>
       \A e \in Subdirectories : Cardinality(RunsIn(e)) = 1

\* the same holds of a starting directory without links: every directory
\* entry is visited once, whatever the exit statuses
C27_WithoutLinks ==
  DOMAIN fs.links = {} /\ each.pc # "off" => C27_AsClaimed

====
